---------------------------- MODULE Spec2Model ----------------------------
(***************************************************************************)
(* File translation with Ollama: the slicer (text_slicer.py), the          *)
(* orchestrator's write loop (translate_with_ollama.py) and the retrying   *)
(* translation client (ollama_client.py).                                  *)
(*                                                                         *)
(* Text is a sequence of characters, each a one-character string.  The     *)
(* conversions of the code (utf-8 encoding for the token count, regex      *)
(* split, strip, join, split on the separator) are computed on those       *)
(* sequences as the code computes them.                                    *)
(***************************************************************************)
EXTENDS Integers, Sequences, FiniteSets, TLC

VARIABLES
    text,            \* main: the input document (src_path.read_text)
    target_tokens,   \* SETTINGS["translation"]["target_tokens_per_slice"]
    pc,              \* main: position ("start", "loop", "done")
    slices,          \* main: slicer.process_text(text)
    i,               \* main: index of the for loop over slices (0-based)
    output,          \* main: what has been written to output_file
    out_open,        \* main: out_path.open("w") has run (the file exists)
    retries,         \* translate: the retry budget in force (max_retries)
    attempt,         \* translate: the loop variable of range(1, retries + 1)
    tpc,             \* translate: position in the call
    requests,        \* number of requests.post calls made by this call
    sleeps,          \* the time.sleep durations of this call, in order
    last_exception,  \* translate: its local of that name
    last_outcome,    \* what the backend did on the latest request
    failures,        \* number of attempts that ended in a classified error
    result,          \* the text translate returned
    raised,          \* the exception that left translate
    input_exists,    \* main: src_path.exists()
    skip_connection_test,  \* SETTINGS["general"]["skip_connection_test"]
    probes,          \* number of requests.post calls made by test_connection
    exit_code,       \* the process's exit status; -1 while it runs
    diag,            \* the error messages printed to stderr, in order
    reports,         \* the progress lines printed to stderr, in order
    calls,           \* main's translate_segment calls, in order: the slice
                     \* index, the text passed and the text returned
    written,         \* what each finished loop iteration wrote, in order
    settings_file,   \* settings.json as it is on disk
    SETTINGS,        \* the module global of that name
    OLLAMA_CLIENT,   \* the module global of that name
    spc,             \* position in the module's start-up code
    test_config,     \* test_ollama_client.py: its local named config
    service_calls,   \* the calls of the client's service operations so far
    gpc,             \* gui.py: position of the UI thread
    gui_settings,    \* gui.py: self.settings
    translation_process,  \* gui.py: self.translation_process, 0 for None
    workers,         \* gui.py: the threads running _run_translation_subprocess
    readers,         \* gui.py: the threads running read_stream
    procs,           \* the pipeline subprocesses the GUI has started
    log_queue,       \* gui.py: self.log_queue
    widget_updates,  \* gui.py: the updates of widgets so far, each with its
                     \* thread and its number among the equal ones
    ui_entries       \* gui.py: what the entry widgets of the settings hold

mainVars == <<text, target_tokens, pc, slices, i, output, out_open>>
clientVars == <<retries, attempt, tpc, requests, sleeps, last_exception,
                last_outcome, failures, result, raised>>
runVars == <<input_exists, skip_connection_test, probes, exit_code, diag,
             reports, calls, written>>
settingsVars == <<settings_file, SETTINGS, OLLAMA_CLIENT, spc, test_config,
                  service_calls>>
guiVars == <<gpc, gui_settings, translation_process, workers, readers, procs,
             log_queue, widget_updates, ui_entries>>
vars == <<mainVars, clientVars, runVars, settingsVars, guiVars>>

-----------------------------------------------------------------------------
(* Bounds of the model. *)

MaxPieces == 5
MaxTarget == 2
MaxRetries == 6

-----------------------------------------------------------------------------
(* Characters and strings. *)

\* Python's str.strip() and the regex class \s: the whitespace characters.
Whitespace == {" ", "\n", "\t"}

\* The five CJK characters of the default separator, written by code point;
\* each is one character and takes 3 bytes in utf-8.
WideChars == {"U+6BB5", "U+843D", "U+5206", "U+9694", "U+7B26"}

\* len(c.encode("utf-8")) of one character.
Utf8Len(c) == IF c \in WideChars THEN 3 ELSE 1

RECURSIVE ByteLen(_)
\* len(text.encode("utf-8"))
ByteLen(s) == IF s = <<>> THEN 0 ELSE Utf8Len(Head(s)) + ByteLen(Tail(s))

\* count_tokens: one token per 4 bytes of the utf-8 encoding, rounded down.
count_tokens(s) == ByteLen(s) \div 4

SetMin(S) == CHOOSE x \in S : \A y \in S : x <= y
SetMax(S) == CHOOSE x \in S : \A y \in S : x >= y

\* str.strip(): drop leading and trailing whitespace.
Strip(s) ==
    LET keep == {k \in 1..Len(s) : s[k] \notin Whitespace}
    IN  IF keep = {} THEN <<>> ELSE SubSeq(s, SetMin(keep), SetMax(keep))

RECURSIVE JoinWith(_, _)
\* glue.join(parts)
JoinWith(parts, glue) ==
    IF parts = <<>> THEN <<>>
    ELSE IF Len(parts) = 1 THEN parts[1]
    ELSE parts[1] \o glue \o JoinWith(Tail(parts), glue)

\* text[p:].startswith(sub), p 1-based
StartsAt(s, p, sub) ==
    /\ p + Len(sub) - 1 <= Len(s)
    /\ \A k \in 1..Len(sub) : s[p + k - 1] = sub[k]

RECURSIVE SplitOnFrom(_, _, _)
SplitOnFrom(s, p, sub) ==
    LET hits == {q \in p..Len(s) : StartsAt(s, q, sub)}
    IN  IF hits = {} THEN <<SubSeq(s, p, Len(s))>>
        ELSE LET q == SetMin(hits)
             IN  <<SubSeq(s, p, q - 1)>> \o SplitOnFrom(s, q + Len(sub), sub)

\* text.split(sub): cut at the non-overlapping occurrences of sub, left to right.
SplitOn(s, sub) == SplitOnFrom(s, 1, sub)


-----------------------------------------------------------------------------
(* text_slicer.py *)

\* The places where the regex \n\s*\n can start matching at or after p: a
\* newline followed, after whitespace only, by another newline.
SepStarts(s, p) ==
    {a \in p..Len(s) :
        /\ s[a] = "\n"
        /\ \E b \in (a + 1)..Len(s) :
              /\ s[b] = "\n"
              /\ \A k \in (a + 1)..(b - 1) : s[k] \in Whitespace}

\* The end of the match that starts at a: \s* is greedy, so the last newline
\* of the whitespace run that follows a.
SepEnd(s, a) ==
    SetMax({b \in (a + 1)..Len(s) :
               /\ s[b] = "\n"
               /\ \A k \in (a + 1)..(b - 1) : s[k] \in Whitespace})

RECURSIVE SplitParagraphsFrom(_, _)
SplitParagraphsFrom(s, p) ==
    LET starts == SepStarts(s, p)
    IN  IF starts = {} THEN <<SubSeq(s, p, Len(s))>>
        ELSE LET a == SetMin(starts)
             IN  <<SubSeq(s, p, a - 1)>> \o SplitParagraphsFrom(s, SepEnd(s, a) + 1)

\* split_into_paragraphs: re.split(r'\n\s*\n', text)
split_into_paragraphs(s) == SplitParagraphsFrom(s, 1)

\* The test `para_len > max_tokens` of group_paragraphs, `sent_len >
\* target_tokens` of slice_long_paragraph.
OverBudget(len, max_tokens) == len > max_tokens

\* NeedsFlush as it would be with >= for >.
NeedsFlushInclusive(current, current_len, new_len, max_tokens) ==
    current_len + new_len >= max_tokens /\ current # <<>>
\* NeedsFlush as it would be with the new paragraph's length left out.
NeedsFlushIgnoringNew(current, current_len, new_len, max_tokens) ==
    current_len > max_tokens /\ current # <<>>
\* The flush test of both greedy passes:
\* `current_len + para_len > max_tokens and current`.
NeedsFlush(current, current_len, new_len, max_tokens) ==
    current_len + new_len > max_tokens /\ current # <<>>

\* Flush as it would be if the pending group were dropped.
FlushNothing(groups, current) == groups
\* `if current: groups.append(current)`
Flush(groups, current) == IF current # <<>> THEN Append(groups, current) ELSE groups

RECURSIVE GroupFoldLateFlush(_, _, _, _, _)
\* GroupFold as it would be if a blank or over-budget paragraph were emitted
\* without flushing the pending group first, the pending group staying
\* open.
GroupFoldLateFlush(paragraphs, max_tokens, groups, current, current_len) ==
    IF paragraphs = <<>> THEN Flush(groups, current)
    ELSE LET para == Strip(Head(paragraphs))
             rest == Tail(paragraphs)
             para_len == count_tokens(para)
         IN  IF para = <<>>
             THEN GroupFoldLateFlush(rest, max_tokens,
                                     Append(groups, << <<>> >>), current, current_len)
             ELSE IF OverBudget(para_len, max_tokens)
             THEN GroupFoldLateFlush(rest, max_tokens,
                                     Append(groups, <<para>>), current, current_len)
             ELSE IF NeedsFlush(current, current_len, para_len, max_tokens)
             THEN GroupFoldLateFlush(rest, max_tokens,
                                     Append(groups, current), <<para>>, para_len)
             ELSE GroupFoldLateFlush(rest, max_tokens,
                                     groups, Append(current, para),
                                     current_len + para_len)

RECURSIVE GroupFold(_, _, _, _, _)
\* The for loop of group_paragraphs over the paragraphs that are left, with
\* its three locals, and the final flush.
GroupFold(paragraphs, max_tokens, groups, current, current_len) ==
    IF paragraphs = <<>> THEN Flush(groups, current)
    ELSE LET para == Strip(Head(paragraphs))
             rest == Tail(paragraphs)
             para_len == count_tokens(para)
         IN  IF para = <<>>
             THEN GroupFold(rest, max_tokens,
                            Append(Flush(groups, current), << <<>> >>), <<>>, 0)
             ELSE IF OverBudget(para_len, max_tokens)
             THEN GroupFold(rest, max_tokens,
                            Append(Flush(groups, current), <<para>>), <<>>, 0)
             ELSE IF NeedsFlush(current, current_len, para_len, max_tokens)
             THEN GroupFold(rest, max_tokens,
                            Append(groups, current), <<para>>, para_len)
             ELSE GroupFold(rest, max_tokens,
                            groups, Append(current, para), current_len + para_len)

group_paragraphs(paragraphs, max_tokens) ==
    GroupFold(paragraphs, max_tokens, <<>>, <<>>, 0)

\* sent_tokenize (nltk punkt, an external library), as it cuts lower-case
\* text: a sentence ends at a period that is followed by whitespace, unless
\* the period ends an ellipsis (".."); the whitespace between two sentences
\* belongs to neither.
SentenceEnds(s) ==
    {k \in 1..(Len(s) - 1) :
        /\ s[k] = "."
        /\ s[k + 1] \in Whitespace
        /\ ~(k > 1 /\ s[k - 1] = ".")}

RECURSIVE SentencesFrom(_, _)
SentencesFrom(s, p) ==
    LET ends == {k \in SentenceEnds(s) : k >= p}
    IN  IF ends = {} THEN <<SubSeq(s, p, Len(s))>>
        ELSE LET k == SetMin(ends)
                 next == SetMin({q \in (k + 1)..Len(s) : s[q] \notin Whitespace})
             IN  <<SubSeq(s, p, k)>> \o SentencesFrom(s, next)

sent_tokenize(paragraph) ==
    LET s == Strip(paragraph)
    IN  IF s = <<>> THEN <<>> ELSE SentencesFrom(s, 1)

\* " ".join(current)
JoinSentences(current) == JoinWith(current, <<" ">>)

RECURSIVE SliceFoldNoFinalFlush(_, _, _, _, _)
\* SliceFold as it would be without the flush after the loop.
SliceFoldNoFinalFlush(sentences, target, slcs, current, current_len) ==
    IF sentences = <<>>
    THEN slcs
    ELSE LET sent == Head(sentences)
             rest == Tail(sentences)
             sent_len == count_tokens(sent)
             flushed == IF current # <<>>
                        THEN Append(slcs, JoinSentences(current)) ELSE slcs
         IN  IF OverBudget(sent_len, target)
             THEN SliceFoldNoFinalFlush(rest, target, Append(flushed, sent), <<>>, 0)
             ELSE IF NeedsFlush(current, current_len, sent_len, target)
             THEN SliceFoldNoFinalFlush(rest, target, flushed, <<sent>>, sent_len)
             ELSE SliceFoldNoFinalFlush(rest, target, slcs, Append(current, sent),
                                        current_len + sent_len)

RECURSIVE SliceFold(_, _, _, _, _)
\* The for loop of slice_long_paragraph over the sentences that are left.
SliceFold(sentences, target, slcs, current, current_len) ==
    IF sentences = <<>>
    THEN IF current # <<>> THEN Append(slcs, JoinSentences(current)) ELSE slcs
    ELSE LET sent == Head(sentences)
             rest == Tail(sentences)
             sent_len == count_tokens(sent)
             flushed == IF current # <<>>
                        THEN Append(slcs, JoinSentences(current)) ELSE slcs
         IN  IF OverBudget(sent_len, target)
             THEN SliceFold(rest, target, Append(flushed, sent), <<>>, 0)
             ELSE IF NeedsFlush(current, current_len, sent_len, target)
             THEN SliceFold(rest, target, flushed, <<sent>>, sent_len)
             ELSE SliceFold(rest, target, slcs, Append(current, sent),
                            current_len + sent_len)

slice_long_paragraph(paragraph, target) ==
    SliceFold(sent_tokenize(paragraph), target, <<>>, <<>>, 0)

\* is_empty_group as it would be without the `not`.
IsEmptyGroupInverted(group) == \A k \in 1..Len(group) : Strip(group[k]) # <<>>
\* all(not para.strip() for para in group)
is_empty_group(group) == \A k \in 1..Len(group) : Strip(group[k]) = <<>>

\* is_long_paragraph_group as it would be with >= for >.
IsLongGroupInclusive(group, max_tokens) ==
    Len(group) = 1 /\ count_tokens(group[1]) >= max_tokens
\* len(group) == 1 and count_tokens(group[0]) > max_tokens
is_long_paragraph_group(group, max_tokens) ==
    Len(group) = 1 /\ count_tokens(group[1]) > max_tokens

\* The body of process_text's loop: the slice entries one group becomes.
\* The content of an 'empty' or 'normal' entry is the group (a list of
\* paragraphs); that of a 'long_paragraph_slice' is one text.
SlicesOfGroup(group, target) ==
    IF is_empty_group(group)
    THEN << [type |-> "empty", content |-> group, needs_translation |-> FALSE] >>
    ELSE IF is_long_paragraph_group(group, target)
    THEN LET long_para_slices == slice_long_paragraph(group[1], target)
         IN  [k \in 1..Len(long_para_slices) |->
                 [type |-> "long_paragraph_slice",
                  content |-> long_para_slices[k],
                  needs_translation |-> TRUE]]
    ELSE << [type |-> "normal", content |-> group, needs_translation |-> TRUE] >>

RECURSIVE SlicesOfGroups(_, _)
SlicesOfGroups(groups, target) ==
    IF groups = <<>> THEN <<>>
    ELSE SlicesOfGroup(Head(groups), target) \o SlicesOfGroups(Tail(groups), target)

\* TextSlicer.process_text
process_text(s, target) ==
    SlicesOfGroups(group_paragraphs(split_into_paragraphs(s), target), target)

\* The default para_sep, "<" + five CJK characters + ">": 17 bytes in utf-8.
para_sep == <<"<", "U+6BB5", "U+843D", "U+5206", "U+9694", "U+7B26", ">">>

\* join_paragraphs_with_separator: f"\n{separator}\n".join(paragraphs)
join_paragraphs_with_separator(paragraphs, separator) ==
    JoinWith(paragraphs, <<"\n">> \o separator \o <<"\n">>)

\* split_by_separator: [p.strip() for p in text.split(separator)]
split_by_separator(s, separator) ==
    LET parts == SplitOn(s, separator)
    IN  [k \in 1..Len(parts) |-> Strip(parts[k])]

-----------------------------------------------------------------------------
(* ollama_client.py *)

\* An exception: its class and its message, the message a sequence of
\* text fragments (the literal parts are given in English).
Exc(cls, msg) == [cls |-> cls, msg |-> msg]

\* Python's None, where an exception may stand; str(None) is "None".
None == Exc("None", <<"None">>)

\* The response bodies the backend may send.  raw names the body's text;
\* form says what json.loads makes of it: a JSON object whose "response"
\* field is text, a text that is no JSON, a JSON object without "response",
\* a JSON object whose "response" is not text, a JSON value that is no object.
Bodies ==
    { [raw |-> "json-x", form |-> "text", response |-> <<"x">>],
      [raw |-> "json-y", form |-> "text", response |-> <<" ", "y", "\n">>],
      [raw |-> "oops", form |-> "not_json", response |-> <<>>],
      [raw |-> "{}", form |-> "no_field", response |-> <<>>],
      [raw |-> "{response: 5}", form |-> "bad_type", response |-> <<>>],
      [raw |-> "[]", form |-> "not_object", response |-> <<>>] }

StatusCodes == {200, 404, 500}

NoBody == [raw |-> "", form |-> "none", response |-> <<>>]

\* What one requests.post call may meet: a transport failure, or an HTTP
\* response with a status and a body.
BackendOutcomes ==
    { [kind |-> k, status |-> 0, body |-> NoBody] :
          k \in {"connection_error", "timeout", "request_exception"} }
    \cup { [kind |-> "http", status |-> st, body |-> b] :
               st \in StatusCodes, b \in Bodies }

NoOutcome == [kind |-> "none", status |-> 0, body |-> NoBody]

\* response.raise_for_status() raises HTTPError for a 4xx or 5xx status.
IsErrorStatus(st) == st >= 400 /\ st < 600

\* What a call of _handle_response or _make_request comes to: a returned
\* text, or an exception.
Returned(value) == [ok |-> TRUE, value |-> value, exc |-> None]
Raised(exc) == [ok |-> FALSE, value |-> <<>>, exc |-> exc]

\* HttpError as it would be with the response text left out of the message.
HttpErrorStatusOnly(o) ==
    Raised(Exc("OllamaAPIError", <<"HTTP error: ", ToString(o.status)>>))
\* except requests.exceptions.HTTPError as e:
\*     raise OllamaAPIError(f"...: {e.response.status_code} - {e.response.text}")
HttpError(o) ==
    Raised(Exc("OllamaAPIError",
               <<"HTTP error: ", ToString(o.status), " - ", o.body.raw>>))

\* _handle_response: raise_for_status, response.json(), the "response" field
\* stripped.  An AttributeError or TypeError is caught by no except clause.
_handle_response(o) ==
    IF IsErrorStatus(o.status) THEN HttpError(o)
    ELSE IF o.body.form = "not_json"
    THEN Raised(Exc("OllamaAPIError", <<"JSON parse error: ", o.body.raw>>))
    ELSE IF o.body.form = "no_field"
    THEN Raised(Exc("OllamaAPIError",
                    <<"bad response format, missing field: ", "'response'">>))
    ELSE IF o.body.form = "bad_type"
    THEN Raised(Exc("AttributeError", <<"object has no attribute 'strip'">>))
    ELSE IF o.body.form = "not_object"
    THEN Raised(Exc("TypeError", <<"indices must be integers">>))
    ELSE Returned(Strip(o.body.response))

\* _make_request: requests.post, then _handle_response; the transport's
\* exceptions become client exceptions.
_make_request(o) ==
    IF o.kind = "connection_error"
    THEN Raised(Exc("OllamaConnectionError", <<"connection failed: ", o.kind>>))
    ELSE IF o.kind = "timeout"
    THEN Raised(Exc("OllamaTimeoutError", <<"request timed out: ", o.kind>>))
    ELSE IF o.kind = "request_exception"
    THEN Raised(Exc("OllamaConnectionError", <<"request error: ", o.kind>>))
    ELSE _handle_response(o)

\* The classes translate's except clause names.
\* BaseOf as it would be with OllamaTimeoutError derived from Exception.
BaseOfWithTimeoutApart(cls) ==
    IF cls \in {"OllamaConnectionError", "OllamaAPIError", "OllamaServiceError"}
    THEN "OllamaClientError"
    ELSE IF cls = "KeyError" THEN "LookupError"
    ELSE IF cls = "BaseException" THEN "object"
    ELSE IF cls = "Exception" THEN "BaseException"
    ELSE "Exception"
\* The base class of an exception class: the class statements of the client
\* module, and Python's own hierarchy for the built-in classes.
BaseOf(cls) ==
    IF cls \in {"OllamaConnectionError", "OllamaAPIError", "OllamaTimeoutError",
                "OllamaServiceError"}
    THEN "OllamaClientError"
    ELSE IF cls = "KeyError" THEN "LookupError"
    ELSE IF cls = "BaseException" THEN "object"
    ELSE IF cls = "Exception" THEN "BaseException"
    ELSE "Exception"

\* issubclass(cls, base).
RECURSIVE IsSubclass(_, _)
IsSubclass(cls, base) ==
    IF cls = base THEN TRUE
    ELSE IF cls = "object" THEN FALSE
    ELSE IsSubclass(BaseOf(cls), base)

\* `except handler_cls` catches exc.
Catches(handler_cls, exc) == IsSubclass(exc.cls, handler_cls)

RetriedClasses == {"OllamaConnectionError", "OllamaTimeoutError", "OllamaAPIError"}

\* The longest wait between two attempts, in seconds.
BackoffCap == 30
\* sleep_time as it would be with the attempts counted from 0.
SleepTimeFromZero(k) == IF 2 ^ (k - 1) < BackoffCap THEN 2 ^ (k - 1) ELSE BackoffCap
\* sleep_time = min(2 ** attempt, 30)
sleep_time(k) == IF 2 ^ k < BackoffCap THEN 2 ^ k ELSE BackoffCap

\* InRange as it would be for a loop that tests after its first pass.
InRangeAfterFirstPass(k, n) == k = 1 \/ (k >= 1 /\ k <= n)
\* InRange as it would be with one pass too many.
InRangePlusOne(k, n) == 1 <= k /\ k <= n + 1
\* k in range(1, retries + 1): the for loop has a pass for attempt k.
InRange(k, n) == 1 <= k /\ k <= n

\* `if attempt < retries`: a wait follows a failed attempt only when another
\* attempt follows.
SleepsBeforeRetry(k, n) == k < n

\* The exception raised once the loop is over:
\* OllamaClientError(f"... {retries} ... {last_exception}")
AggregateError(n, last) ==
    Exc("OllamaClientError",
        <<"translation failed after ", ToString(n), " tries; last error: ">>
            \o last.msg)

\* RecordException as it would be if only the first failure were kept.
KeepFirstException(old, e) == IF old = None THEN e ELSE old
\* `last_exception = e` in the except clause.
RecordException(old, e) == e

\* The client's variables while no call is being made.
ClientIdle ==
    /\ retries = 0
    /\ attempt = 0
    /\ tpc = "idle"
    /\ requests = 0
    /\ sleeps = <<>>
    /\ last_exception = None
    /\ last_outcome = NoOutcome
    /\ failures = 0
    /\ result = <<>>
    /\ raised = None

-----------------------------------------------------------------------------
(* The settings: load_ollama_config, load_settings, OllamaClient.__init__.   *)
(* A dict is a function from its keys; a float is written as a string.       *)

\* The dict {}.
EmptyDict == [k \in {} |-> ""]

\* A global that has not been assigned yet.
Unset == [unset |-> TRUE]

\* A section the settings file does not have.
Missing == [missing |-> TRUE]

\* d.get(key, default)
Get(d, key, default) == IF key \in DOMAIN d THEN d[key] ELSE default

\* d[key] = value
Put(d, key, value) ==
    [k \in DOMAIN d \cup {key} |-> IF k = key THEN value ELSE d[k]]

\* The dict load_ollama_config returns when it reads no file.
DefaultOllamaConfig ==
    [url |-> "http://localhost:11434/api/generate",
     model_name |-> "gemma3:latest",
     temperature |-> "0.1",
     top_p |-> "0.9",
     repeat_penalty |-> "1.2",
     timeout |-> 240,
     retries |-> 3]

\* default_translation_settings
default_translation_settings ==
    [target_tokens_per_slice |-> 1024,
     target_language |-> "simplified Chinese",
     system_prompt |-> "You are a professional translator. ...",
     para_sep |-> para_sep]

\* The "general" dict load_settings puts in when the file has none.
DefaultGeneral == [skip_connection_test |-> FALSE, timeout |-> 240, retries |-> 3]

\* The "ollama" sections a settings file may hold: a complete one, and one
\* that leaves timeout and retries to the "general" section.
OllamaSections ==
    { [url |-> "http://gpu:11434/api/generate", model_name |-> "qwen3:8b",
       temperature |-> "0.3", top_p |-> "0.8", repeat_penalty |-> "1.1",
       timeout |-> 60, retries |-> 5],
      [url |-> "http://gpu:11434/api/generate", model_name |-> "qwen3:8b",
       temperature |-> "0.3", top_p |-> "0.8", repeat_penalty |-> "1.1"] }

\* The "translation" sections a settings file may hold.
TranslationSections ==
    { [target_tokens_per_slice |-> 512, target_language |-> "English",
       system_prompt |-> "Translate into {target_language}.",
       para_sep |-> <<"<", "s", ">">>] }

\* The "general" sections a settings file may hold: complete ones, and one
\* without "timeout".
GeneralSections ==
    { [skip_connection_test |-> sk, timeout |-> t, retries |-> r] :
          sk \in BOOLEAN, t \in {30, 240}, r \in {1, 4} }
    \cup { [skip_connection_test |-> TRUE, retries |-> 2] }

\* The dict json.load gives for a file with the sections that are not Missing.
ConfigOf(o, t, g) ==
    LET all == [ollama |-> o, translation |-> t, general |-> g]
    IN  [k \in {x \in DOMAIN all : all[x] # Missing} |-> all[k]]

\* settings.json: absent, present and no JSON, or present with any choice of
\* sections.
SettingsFiles ==
    { [exists |-> FALSE, valid |-> FALSE, config |-> EmptyDict],
      [exists |-> TRUE, valid |-> FALSE, config |-> EmptyDict] }
    \cup { [exists |-> TRUE, valid |-> TRUE, config |-> ConfigOf(o, t, g)] :
               o \in OllamaSections \cup {Missing},
               t \in TranslationSections \cup {Missing},
               g \in GeneralSections \cup {Missing} }

\* load_ollama_config(config_path): the file's "ollama" section, {} when the
\* file has none, the defaults when the file is absent or cannot be parsed.
load_ollama_config(file) ==
    IF file.exists /\ file.valid
    THEN Get(file.config, "ollama", EmptyDict)
    ELSE DefaultOllamaConfig

\* The two lines both loaders print to stderr when the file cannot be read.
ParseWarning == <<"Warning: cannot read the settings file", "using the defaults">>

\* load_ollama_config_stderr as it would be if nothing were printed.
NoStderr(file) == <<>>
\* What load_ollama_config(config_path) prints to stderr: the warning of its
\* except clause, for a file that is there and cannot be parsed.
load_ollama_config_stderr(file) ==
    IF file.exists /\ ~file.valid THEN ParseWarning ELSE <<>>

\* The two assignments config["ollama"]["timeout"] = config["general"]["timeout"]
\* and config["ollama"]["retries"] = config["general"]["retries"]; a key the
\* "general" section lacks raises KeyError.
CopyTimeoutAndRetries(config) ==
    IF "timeout" \notin DOMAIN config["general"]
    THEN Raised(Exc("KeyError", <<"timeout">>))
    ELSE IF "retries" \notin DOMAIN config["general"]
    THEN Raised(Exc("KeyError", <<"retries">>))
    ELSE Returned(Put(config, "ollama",
                      Put(Put(config["ollama"], "timeout", config["general"]["timeout"]),
                          "retries", config["general"]["retries"])))

\* FillOllama as it would be if a missing "ollama" section got the defaults.
FillOllamaWithDefaults(config, file) ==
    IF "ollama" \notin DOMAIN config
    THEN Put(config, "ollama", DefaultOllamaConfig) ELSE config
\* if "ollama" not in config: config["ollama"] = load_ollama_config(settings_path)
FillOllama(config, file) ==
    IF "ollama" \notin DOMAIN config
    THEN Put(config, "ollama", load_ollama_config(file)) ELSE config

\* if "translation" not in config: config["translation"] = default_translation_settings
FillTranslation(config) ==
    IF "translation" \notin DOMAIN config
    THEN Put(config, "translation", default_translation_settings) ELSE config

\* if "general" not in config: config["general"] = {...}
FillGeneral(config) ==
    IF "general" \notin DOMAIN config
    THEN Put(config, "general", DefaultGeneral) ELSE config

\* load_settings
load_settings(file) ==
    IF file.exists /\ file.valid
    THEN CopyTimeoutAndRetries(
             FillGeneral(FillTranslation(FillOllama(file.config, file))))
    ELSE Returned([ollama |-> Put(Put(load_ollama_config(file), "timeout", 240),
                                  "retries", 3),
                   translation |-> default_translation_settings,
                   general |-> DefaultGeneral])

\* What load_settings prints to stderr: the warning of its own except
\* clause, then what load_ollama_config prints where load_settings calls it
\* (for the default configuration, or for a missing "ollama" section).
load_settings_stderr(file) ==
    IF file.exists /\ file.valid
    THEN IF "ollama" \notin DOMAIN file.config
         THEN load_ollama_config_stderr(file) ELSE <<>>
    ELSE (IF file.exists THEN ParseWarning ELSE <<>>)
         \o load_ollama_config_stderr(file)

\* The keys OllamaClient.__init__ reads, in the order it reads them.
ClientKeys ==
    <<"url", "model_name", "temperature", "top_p", "repeat_penalty",
      "timeout", "retries">>

\* create_ollama_client(config), that is OllamaClient(config): the client's
\* attributes, or the KeyError of the first key config lacks.
create_ollama_client(config) ==
    LET lacking == {k \in 1..Len(ClientKeys) : ClientKeys[k] \notin DOMAIN config}
    IN  IF lacking # {}
        THEN Raised(Exc("KeyError", <<ClientKeys[SetMin(lacking)]>>))
        ELSE Returned([k \in {ClientKeys[j] : j \in 1..Len(ClientKeys)} |-> config[k]])

\* The settings variables while the start-up code is not exercised.
SettingsIdle ==
    /\ settings_file = [exists |-> FALSE, valid |-> FALSE, config |-> EmptyDict]
    /\ SETTINGS = Unset
    /\ OLLAMA_CLIENT = Unset
    /\ spc = "idle"
    /\ test_config = Unset
    /\ service_calls = <<>>

\* The GUI's variables while no GUI is running.
GuiIdle ==
    /\ gpc = "idle"
    /\ gui_settings = Unset
    /\ translation_process = 0
    /\ workers = <<>>
    /\ readers = <<>>
    /\ procs = <<>>
    /\ log_queue = <<>>
    /\ widget_updates = {}
    /\ ui_entries = Unset

-----------------------------------------------------------------------------
(* translate_with_ollama.py: main's write loop, with translate_segment       *)
(* replaced by the identity.                                                 *)

\* The input documents: every concatenation of at most MaxPieces pieces, a
\* piece being a word, a word that ends a sentence, a space, a line break or
\* a blank line.
Pieces ==
    { <<"a", "a", "a">>, <<"a", "a", "a", ".">>, <<" ">>, <<"\n">>, <<"\n", "\n">> }

RECURSIVE DocsOfLen(_)
DocsOfLen(n) ==
    IF n = 0 THEN {<<>>}
    ELSE {d \o q : d \in DocsOfLen(n - 1), q \in Pieces}

Documents == UNION {DocsOfLen(n) : n \in 0..MaxPieces}

Targets == -1..MaxTarget

\* translate_segment with the model call replaced by the identity.
IdentityTranslate(segment) == segment

\* process_empty_group as it would be if it wrote nothing.
ProcessEmptyGroupNothing(out) == out
\* process_empty_group as it would be with a single newline.
ProcessEmptyGroupOneNewline(out) == out \o <<"\n">>
\* process_empty_group: output_file.write("\n\n")
process_empty_group(out) == out \o <<"\n", "\n">>

\* main, the 'long_paragraph_slice' branch:
\* output_file.write(translated.strip() + "\n\n")
WriteLongSlice(out, translated) == out \o Strip(translated) \o <<"\n", "\n">>

RECURSIVE WriteParagraphs(_, _)
\* for para in translated_paragraphs: output_file.write(para + "\n\n")
WriteParagraphs(out, paras) ==
    IF paras = <<>> THEN out
    ELSE WriteParagraphs(out \o Head(paras) \o <<"\n", "\n">>, Tail(paras))

\* process_normal_group as it would be if the translation were written as
\* it came, without being split.
ProcessNormalGroupUnsplit(out, translated) == out \o translated \o <<"\n", "\n">>
\* process_normal_group, given the translation of the joined text.
process_normal_group(out, translated) ==
    WriteParagraphs(out, split_by_separator(translated, para_sep))

\* The variables of a whole run while only a part of it is exercised.
RunIdle ==
    /\ input_exists = FALSE
    /\ skip_connection_test = FALSE
    /\ probes = 0
    /\ exit_code = -1
    /\ diag = <<>>
    /\ reports = <<>>
    /\ calls = <<>>
    /\ written = <<>>

SliceInit ==
    /\ text \in Documents
    /\ target_tokens \in Targets
    /\ pc = "start"
    /\ slices = <<>>
    /\ i = 0
    /\ output = <<>>
    /\ out_open = FALSE
    /\ ClientIdle
    /\ RunIdle
    /\ SettingsIdle
    /\ GuiIdle

\* main: read the input, slice it, open (and truncate) the output file.
SliceText ==
    /\ pc = "start"
    /\ slices' = process_text(text, target_tokens)
    /\ pc' = "loop"
    /\ i' = 0
    /\ output' = <<>>
    /\ out_open' = TRUE
    /\ UNCHANGED <<text, target_tokens>>
    /\ UNCHANGED clientVars
    /\ UNCHANGED <<runVars, settingsVars, guiVars>>

\* One iteration of the for loop on an 'empty' entry.
WriteEmpty ==
    /\ pc = "loop"
    /\ i < Len(slices)
    /\ slices[i + 1].type = "empty"
    /\ output' = process_empty_group(output)
    /\ i' = i + 1
    /\ UNCHANGED <<text, target_tokens, pc, slices, out_open>>
    /\ UNCHANGED clientVars
    /\ UNCHANGED <<runVars, settingsVars, guiVars>>

\* One iteration on a 'long_paragraph_slice' entry.
WriteLong ==
    /\ pc = "loop"
    /\ i < Len(slices)
    /\ slices[i + 1].type = "long_paragraph_slice"
    /\ output' = WriteLongSlice(output, IdentityTranslate(slices[i + 1].content))
    /\ i' = i + 1
    /\ UNCHANGED <<text, target_tokens, pc, slices, out_open>>
    /\ UNCHANGED clientVars
    /\ UNCHANGED <<runVars, settingsVars, guiVars>>

\* One iteration on a 'normal' entry.
WriteNormal ==
    /\ pc = "loop"
    /\ i < Len(slices)
    /\ slices[i + 1].type = "normal"
    /\ LET joined == join_paragraphs_with_separator(slices[i + 1].content, para_sep)
       IN  output' = process_normal_group(output, IdentityTranslate(joined))
    /\ i' = i + 1
    /\ UNCHANGED <<text, target_tokens, pc, slices, out_open>>
    /\ UNCHANGED clientVars
    /\ UNCHANGED <<runVars, settingsVars, guiVars>>

\* The loop is over: the with block closes the file and main returns.
Finish ==
    /\ pc = "loop"
    /\ i = Len(slices)
    /\ pc' = "done"
    /\ UNCHANGED <<text, target_tokens, slices, i, output, out_open>>
    /\ UNCHANGED clientVars
    /\ UNCHANGED <<runVars, settingsVars, guiVars>>

SliceNext == SliceText \/ WriteEmpty \/ WriteLong \/ WriteNormal \/ Finish

SpecSlice == SliceInit /\ [][SliceNext]_vars

-----------------------------------------------------------------------------
(* OllamaClient.translate: the retry loop, one call.                         *)

\* main's variables while only the client is exercised.
MainIdle ==
    /\ text = <<>>
    /\ target_tokens = 0
    /\ pc = "idle"
    /\ slices = <<>>
    /\ i = 0
    /\ output = <<>>
    /\ out_open = FALSE

RetryBudgets == -1..MaxRetries

\* A client whose retry budget is any of RetryBudgets, before translate is
\* called.
TranslateInit ==
    /\ MainIdle
    /\ retries \in RetryBudgets
    /\ attempt = 0
    /\ tpc = "idle"
    /\ requests = 0
    /\ sleeps = <<>>
    /\ last_exception = None
    /\ last_outcome = NoOutcome
    /\ failures = 0
    /\ result = <<>>
    /\ raised = None
    /\ RunIdle
    /\ SettingsIdle
    /\ GuiIdle

\* translate is entered: last_exception = None, and the for loop over
\* range(1, retries + 1) starts, or is over at once when the range is empty.
Call ==
    /\ tpc = "idle"
    /\ last_exception' = None
    /\ attempt' = 1
    /\ tpc' = IF InRange(1, retries) THEN "attempt" ELSE "exhausted"
    /\ UNCHANGED <<retries, requests, sleeps, last_outcome, failures, result, raised>>
    /\ UNCHANGED mainVars
    /\ UNCHANGED <<runVars, settingsVars, guiVars>>

\* One pass of the loop body: the request, and what becomes of its outcome o:
\* a return, a caught (classified) exception, or an exception that escapes.
\* A caught exception is followed by the wait, or, when none is due, by the
\* loop's next pass or its end.
MakeRequest(o) ==
    /\ tpc = "attempt"
    /\ requests' = requests + 1
    /\ last_outcome' = o
    /\ LET r == _make_request(o)
       IN  IF r.ok
           THEN /\ result' = r.value
                /\ tpc' = "returned"
                /\ UNCHANGED <<attempt, last_exception, failures, raised>>
           ELSE IF r.exc.cls \in RetriedClasses
           THEN /\ last_exception' = RecordException(last_exception, r.exc)
                /\ failures' = failures + 1
                /\ IF SleepsBeforeRetry(attempt, retries)
                   THEN tpc' = "sleep" /\ UNCHANGED attempt
                   ELSE /\ attempt' = attempt + 1
                        /\ tpc' = IF InRange(attempt + 1, retries)
                                  THEN "attempt" ELSE "exhausted"
                /\ UNCHANGED <<result, raised>>
           ELSE /\ raised' = r.exc
                /\ tpc' = "crashed"
                /\ UNCHANGED <<attempt, last_exception, failures, result>>
    /\ UNCHANGED <<retries, sleeps>>
    /\ UNCHANGED mainVars
    /\ UNCHANGED <<runVars, settingsVars, guiVars>>

\* time.sleep(sleep_time), then the loop goes on to the next attempt.
Sleep ==
    /\ tpc = "sleep"
    /\ sleeps' = Append(sleeps, sleep_time(attempt))
    /\ attempt' = attempt + 1
    /\ tpc' = IF InRange(attempt + 1, retries) THEN "attempt" ELSE "exhausted"
    /\ UNCHANGED <<retries, requests, last_exception, last_outcome, failures,
                   result, raised>>
    /\ UNCHANGED mainVars
    /\ UNCHANGED <<runVars, settingsVars, guiVars>>

\* The loop is over without a return: raise the aggregate error.
RaiseAggregate ==
    /\ tpc = "exhausted"
    /\ raised' = AggregateError(retries, last_exception)
    /\ tpc' = "failed"
    /\ UNCHANGED <<retries, attempt, requests, sleeps, last_exception,
                   last_outcome, failures, result>>
    /\ UNCHANGED mainVars
    /\ UNCHANGED <<runVars, settingsVars, guiVars>>

SendRequest == \E o \in BackendOutcomes : MakeRequest(o)

TranslateNext == Call \/ SendRequest \/ Sleep \/ RaiseAggregate

SpecTranslate == TranslateInit /\ [][TranslateNext]_vars

-----------------------------------------------------------------------------
(* translate_with_ollama.py: a whole run of main, the client and a backend.  *)

MaxRunPieces == 3

\* The input documents of a whole run: at most MaxRunPieces pieces, a piece
\* being a word, a word that ends a sentence, a space or a blank line.
RunPieces ==
    { <<"a", "a", "a">>, <<"a", "a", "a", ".">>, <<" ">>, <<"\n", "\n">> }

RECURSIVE RunDocsOfLen(_)
RunDocsOfLen(n) ==
    IF n = 0 THEN {<<>>}
    ELSE {d \o q : d \in RunDocsOfLen(n - 1), q \in RunPieces}

RunDocuments == UNION {RunDocsOfLen(n) : n \in 0..MaxRunPieces}

RunTargets == {0, 1}

RunRetryBudgets == {1, 2}

\* A model that answers with its prompt.
Echo(prompt) == prompt

\* A model that answers with another text: every "a" of the prompt becomes
\* "b", the rest is kept, and the answer has whitespace around it.
Rewrite(prompt) ==
    <<" ">> \o [k \in 1..Len(prompt) |-> IF prompt[k] = "a" THEN "b" ELSE prompt[k]]
            \o <<"\n">>

\* A model that answers with one short text whatever the prompt is, the
\* separator lines of the prompt not being kept.
Digest(prompt) == <<"b", "b">>

\* What one requests.post call of a run may meet, given the prompt it sends:
\* a transport failure, an error status, a body whose "response" is not text,
\* or one of the three models' answers.
RunOutcomes(prompt) ==
    { [kind |-> "connection_error", status |-> 0, body |-> NoBody],
      [kind |-> "http", status |-> 500,
       body |-> [raw |-> "oops", form |-> "not_json", response |-> <<>>]],
      [kind |-> "http", status |-> 200,
       body |-> [raw |-> "{response: 5}", form |-> "bad_type", response |-> <<>>]],
      [kind |-> "http", status |-> 200,
       body |-> [raw |-> "json-echo", form |-> "text", response |-> Echo(prompt)]],
      [kind |-> "http", status |-> 200,
       body |-> [raw |-> "json-rewrite", form |-> "text",
                 response |-> Rewrite(prompt)]],
      [kind |-> "http", status |-> 200,
       body |-> [raw |-> "json-digest", form |-> "text",
                 response |-> Digest(prompt)]] }

\* test_connection as it would be if it reported success whatever happened.
TestConnectionAlwaysTrue(o) == TRUE
\* test_connection as it would be without response.raise_for_status().
TestConnectionAnyResponse(o) == o.kind = "http"
\* test_connection: True when requests.post returns and raise_for_status
\* passes; any exception gives False.
test_connection(o) == o.kind = "http" /\ ~IsErrorStatus(o.status)

\* ProgressOf as it would be with the slice being started counted as done.
ProgressOfNext(done, total) ==
    [done |-> done + 1, total |-> total,
     percent |-> IF total > 0 THEN ((done + 1) * 100) \div total ELSE 0]
\* The progress line of a loop iteration:
\* int(i * 100 / total_slices) if total_slices > 0 else 0, and (i/total).
ProgressOf(done, total) ==
    [done |-> done, total |-> total,
     percent |-> IF total > 0 THEN (done * 100) \div total ELSE 0]

\* The final progress line, printed only when total_slices > 0.
FinalProgress(total) ==
    IF total > 0
    THEN << [done |-> total, total |-> total, percent |-> 100] >>
    ELSE <<>>

\* The text main hands to translate_segment for a slice entry: the content
\* of a 'long_paragraph_slice', the joined paragraphs of a 'normal' group.
SegmentOf(slice_info) ==
    IF slice_info.type = "normal"
    THEN join_paragraphs_with_separator(slice_info.content, para_sep)
    ELSE slice_info.content

\* What a write added to the output.
Added(out, new_out) == SubSeq(new_out, Len(out) + 1, Len(new_out))

\* The start of main, for any document, budget, retry count and flag, the
\* input file being there or not.
\* What the output path holds when main starts: nothing, or the text an
\* earlier run left there.
OldOutputs == {<<>>, <<"o", "l", "d", "\n", "\n">>}

RunInit ==
    /\ text \in RunDocuments
    /\ target_tokens \in RunTargets
    /\ pc = "main"
    /\ slices = <<>>
    /\ i = 0
    /\ output \in OldOutputs
    /\ out_open = FALSE
    /\ retries \in RunRetryBudgets
    /\ attempt = 0
    /\ tpc = "no_call"
    /\ requests = 0
    /\ sleeps = <<>>
    /\ last_exception = None
    /\ last_outcome = NoOutcome
    /\ failures = 0
    /\ result = <<>>
    /\ raised = None
    /\ input_exists \in BOOLEAN
    /\ skip_connection_test \in BOOLEAN
    /\ probes = 0
    /\ exit_code = -1
    /\ diag = <<>>
    /\ reports = <<>>
    /\ calls = <<>>
    /\ written = <<>>
    /\ SettingsIdle
    /\ GuiIdle

\* CheckInput as it would be if main opened the output file at once.
CheckInputOpensOutput ==
    /\ pc = "main"
    /\ IF input_exists
       THEN /\ pc' = "probe"
            /\ UNCHANGED <<exit_code, diag>>
       ELSE /\ pc' = "exited"
            /\ exit_code' = 1
            /\ diag' = Append(diag, "File does not exist")
    /\ output' = <<>>
    /\ out_open' = TRUE
    /\ UNCHANGED <<text, target_tokens, slices, i>>
    /\ UNCHANGED <<input_exists, skip_connection_test, probes, reports, calls, written>>
    /\ UNCHANGED <<clientVars, settingsVars, guiVars>>
\* CheckInput as it would be if a missing input ended the run with status 0.
CheckInputExitZero ==
    /\ pc = "main"
    /\ IF input_exists
       THEN /\ pc' = "probe"
            /\ UNCHANGED <<exit_code, diag>>
       ELSE /\ pc' = "exited"
            /\ exit_code' = 0
            /\ diag' = Append(diag, "File does not exist")
    /\ UNCHANGED <<text, target_tokens, slices, i, output, out_open>>
    /\ UNCHANGED <<input_exists, skip_connection_test, probes, reports, calls, written>>
    /\ UNCHANGED <<clientVars, settingsVars, guiVars>>
\* main: `if not src_path.exists(): sys.exit("File does not exist: ...")`.
CheckInput ==
    /\ pc = "main"
    /\ IF input_exists
       THEN /\ pc' = "probe"
            /\ UNCHANGED <<exit_code, diag>>
       ELSE /\ pc' = "exited"
            /\ exit_code' = 1
            /\ diag' = Append(diag, "File does not exist")
    /\ UNCHANGED <<text, target_tokens, slices, i, output, out_open>>
    /\ UNCHANGED <<input_exists, skip_connection_test, probes, reports, calls, written>>
    /\ UNCHANGED <<clientVars, settingsVars, guiVars>>

\* main: the connection test, when it is not skipped; a failed test ends
\* the run with sys.exit("Error: Cannot connect ...").
TestConnection(o) ==
    /\ pc = "probe"
    /\ ~skip_connection_test
    /\ probes' = probes + 1
    /\ IF test_connection(o)
       THEN /\ pc' = "start"
            /\ UNCHANGED <<exit_code, diag>>
       ELSE /\ pc' = "exited"
            /\ exit_code' = 1
            /\ diag' = diag \o <<"connection test failed",
                                 "Error: Cannot connect to Ollama service">>
    /\ UNCHANGED <<text, target_tokens, slices, i, output, out_open>>
    /\ UNCHANGED <<input_exists, skip_connection_test, reports, calls, written>>
    /\ UNCHANGED <<clientVars, settingsVars, guiVars>>

Probe == \E o \in BackendOutcomes : TestConnection(o)

\* main: `if not SETTINGS["general"]["skip_connection_test"]` is false.
SkipConnectionTest ==
    /\ pc = "probe"
    /\ skip_connection_test
    /\ pc' = "start"
    /\ UNCHANGED <<text, target_tokens, slices, i, output, out_open>>
    /\ UNCHANGED <<clientVars, runVars, settingsVars, guiVars>>

\* One loop iteration on an 'empty' entry: the progress line, then
\* process_empty_group.
ProcessEmpty ==
    /\ pc = "loop"
    /\ i < Len(slices)
    /\ slices[i + 1].type = "empty"
    /\ reports' = Append(reports, ProgressOf(i, Len(slices)))
    /\ output' = process_empty_group(output)
    /\ written' = Append(written, Added(output, output'))
    /\ i' = i + 1
    /\ UNCHANGED <<text, target_tokens, pc, slices, out_open>>
    /\ UNCHANGED <<input_exists, skip_connection_test, probes, exit_code, diag, calls>>
    /\ UNCHANGED <<clientVars, settingsVars, guiVars>>

\* One loop iteration on a 'long_paragraph_slice' or 'normal' entry, up to
\* the call of translate: the progress line, then translate_segment is
\* called with the entry's text and translate starts with fresh locals.
EnterTranslate ==
    /\ pc = "loop"
    /\ i < Len(slices)
    /\ slices[i + 1].type \in {"long_paragraph_slice", "normal"}
    /\ reports' = Append(reports, ProgressOf(i, Len(slices)))
    /\ calls' = Append(calls, [slice |-> i, text |-> SegmentOf(slices[i + 1]),
                               translated |-> <<>>])
    /\ pc' = "translating"
    /\ tpc' = "idle"
    /\ attempt' = 0
    /\ requests' = 0
    /\ sleeps' = <<>>
    /\ last_exception' = None
    /\ last_outcome' = NoOutcome
    /\ failures' = 0
    /\ result' = <<>>
    /\ raised' = None
    /\ UNCHANGED <<text, target_tokens, slices, i, output, out_open, retries>>
    /\ UNCHANGED <<input_exists, skip_connection_test, probes, exit_code, diag, written>>
    /\ UNCHANGED <<settingsVars, guiVars>>

\* One request of the call that is open, answered by the backend.
RunRequest ==
    /\ tpc = "attempt"
    /\ \E o \in RunOutcomes(calls[Len(calls)].text) : MakeRequest(o)

\* WriteLongTranslated as it would be if the loop went on to the next entry
\* with the write still to be done.
WriteLongTranslatedLater ==
    /\ pc = "translating"
    /\ tpc = "returned"
    /\ slices[i + 1].type = "long_paragraph_slice"
    /\ i' = i + 1
    /\ pc' = "loop"
    /\ tpc' = "no_call"
    /\ calls' = [calls EXCEPT ![Len(calls)].translated = result]
    /\ UNCHANGED <<text, target_tokens, slices, output, out_open>>
    /\ UNCHANGED <<retries, attempt, requests, sleeps, last_exception,
                   last_outcome, failures, result, raised>>
    /\ UNCHANGED <<input_exists, skip_connection_test, probes, exit_code, diag,
                   reports, written>>
    /\ UNCHANGED <<settingsVars, guiVars>>
\* translate has returned for a 'long_paragraph_slice' entry:
\* output_file.write(translated.strip() + "\n\n"), and the iteration is over.
WriteLongTranslated ==
    /\ pc = "translating"
    /\ tpc = "returned"
    /\ slices[i + 1].type = "long_paragraph_slice"
    /\ output' = WriteLongSlice(output, result)
    /\ written' = Append(written, Added(output, output'))
    /\ i' = i + 1
    /\ pc' = "loop"
    /\ tpc' = "no_call"
    /\ UNCHANGED <<text, target_tokens, slices, out_open>>
    /\ UNCHANGED <<retries, attempt, requests, sleeps, last_exception,
                   last_outcome, failures, result, raised>>
    /\ calls' = [calls EXCEPT ![Len(calls)].translated = result]
    /\ UNCHANGED <<input_exists, skip_connection_test, probes, exit_code, diag,
                   reports>>
    /\ UNCHANGED <<settingsVars, guiVars>>

\* translate has returned for a 'normal' entry: the rest of
\* process_normal_group, and the iteration is over.
WriteNormalTranslated ==
    /\ pc = "translating"
    /\ tpc = "returned"
    /\ slices[i + 1].type = "normal"
    /\ output' = process_normal_group(output, result)
    /\ written' = Append(written, Added(output, output'))
    /\ i' = i + 1
    /\ pc' = "loop"
    /\ tpc' = "no_call"
    /\ UNCHANGED <<text, target_tokens, slices, out_open>>
    /\ UNCHANGED <<retries, attempt, requests, sleeps, last_exception,
                   last_outcome, failures, result, raised>>
    /\ calls' = [calls EXCEPT ![Len(calls)].translated = result]
    /\ UNCHANGED <<input_exists, skip_connection_test, probes, exit_code, diag,
                   reports>>
    /\ UNCHANGED <<settingsVars, guiVars>>

\* AbortRun as it would be if main gave up the slice and went on with the
\* next one.
AbortRunAndGoOn ==
    /\ pc = "translating"
    /\ tpc = "failed"
    /\ diag' = diag \o <<"translation failed", "Failed to translate slice",
                         "Slice content">>
    /\ i' = i + 1
    /\ written' = Append(written, <<>>)
    /\ pc' = "loop"
    /\ tpc' = "no_call"
    /\ UNCHANGED <<text, target_tokens, slices, output, out_open>>
    /\ UNCHANGED <<retries, attempt, requests, sleeps, last_exception,
                   last_outcome, failures, result, raised>>
    /\ UNCHANGED <<input_exists, skip_connection_test, probes, exit_code,
                   reports, calls>>
    /\ UNCHANGED <<settingsVars, guiVars>>
\* translate has raised OllamaClientError: translate_segment prints it and
\* raises it again, main's except clause prints the slice and calls
\* sys.exit(1); the with block closes the output file.
AbortRun ==
    /\ pc = "translating"
    /\ tpc = "failed"
    /\ diag' = diag \o <<"translation failed", "Failed to translate slice",
                         "Slice content">>
    /\ exit_code' = 1
    /\ pc' = "exited"
    /\ UNCHANGED <<text, target_tokens, slices, i, output, out_open>>
    /\ UNCHANGED <<input_exists, skip_connection_test, probes, reports, calls, written>>
    /\ UNCHANGED <<clientVars, settingsVars, guiVars>>

\* An exception no except clause names has left translate: it leaves main
\* too, the with block closes the output file, and the interpreter prints
\* the traceback and ends with status 1.
CrashRun ==
    /\ pc = "translating"
    /\ tpc = "crashed"
    /\ diag' = Append(diag, "Traceback")
    /\ exit_code' = 1
    /\ pc' = "exited"
    /\ UNCHANGED <<text, target_tokens, slices, i, output, out_open>>
    /\ UNCHANGED <<input_exists, skip_connection_test, probes, reports, calls, written>>
    /\ UNCHANGED <<clientVars, settingsVars, guiVars>>

\* The loop is over: the final progress line, the with block closes the
\* file, main returns and the process ends with status 0.
FinishRun ==
    /\ pc = "loop"
    /\ i = Len(slices)
    /\ reports' = reports \o FinalProgress(Len(slices))
    /\ exit_code' = 0
    /\ pc' = "done"
    /\ UNCHANGED <<text, target_tokens, slices, i, output, out_open>>
    /\ UNCHANGED <<input_exists, skip_connection_test, probes, diag, calls, written>>
    /\ UNCHANGED <<clientVars, settingsVars, guiVars>>

RunNext ==
    \/ CheckInput
    \/ Probe
    \/ SkipConnectionTest
    \/ SliceText
    \/ ProcessEmpty
    \/ EnterTranslate
    \/ Call
    \/ RunRequest
    \/ Sleep
    \/ RaiseAggregate
    \/ WriteLongTranslated
    \/ WriteNormalTranslated
    \/ AbortRun
    \/ CrashRun
    \/ FinishRun

SpecRun == RunInit /\ [][RunNext]_vars

-----------------------------------------------------------------------------
(* The module's start-up code: SETTINGS = load_settings() and                *)
(* OLLAMA_CLIENT = create_ollama_client(SETTINGS["ollama"]).                 *)

SettingsInit ==
    /\ MainIdle
    /\ ClientIdle
    /\ RunIdle
    /\ settings_file \in SettingsFiles
    /\ SETTINGS = Unset
    /\ OLLAMA_CLIENT = Unset
    /\ spc = "import"
    /\ test_config = Unset
    /\ service_calls = <<>>
    /\ GuiIdle

\* SETTINGS = load_settings(); an exception ends the process with status 1.
LoadSettings ==
    /\ spc = "import"
    /\ LET r == load_settings(settings_file)
       IN  IF r.ok
           THEN /\ SETTINGS' = r.value
                /\ spc' = "loaded"
                /\ diag' = diag \o load_settings_stderr(settings_file)
                /\ UNCHANGED exit_code
           ELSE /\ spc' = "crashed"
                /\ exit_code' = 1
                /\ diag' = diag \o load_settings_stderr(settings_file)
                                \o <<r.exc.cls>> \o r.exc.msg
                /\ UNCHANGED SETTINGS
    /\ UNCHANGED <<settings_file, OLLAMA_CLIENT, test_config, service_calls>>
    /\ UNCHANGED <<input_exists, skip_connection_test, probes, reports, calls, written>>
    /\ UNCHANGED <<mainVars, clientVars, guiVars>>

\* OLLAMA_CLIENT = create_ollama_client(SETTINGS["ollama"]); an exception
\* ends the process with status 1.
CreateClient ==
    /\ spc = "loaded"
    /\ LET r == create_ollama_client(SETTINGS["ollama"])
       IN  IF r.ok
           THEN /\ OLLAMA_CLIENT' = r.value
                /\ spc' = "ready"
                /\ UNCHANGED <<exit_code, diag>>
           ELSE /\ spc' = "crashed"
                /\ exit_code' = 1
                /\ diag' = diag \o <<r.exc.cls>> \o r.exc.msg
                /\ UNCHANGED OLLAMA_CLIENT
    /\ UNCHANGED <<settings_file, SETTINGS, test_config, service_calls>>
    /\ UNCHANGED <<input_exists, skip_connection_test, probes, reports, calls, written>>
    /\ UNCHANGED <<mainVars, clientVars, guiVars>>

\* test_ollama_client.py and example_usage.py, which do not import the
\* translation script: config = load_ollama_config().
TestLoadConfig ==
    /\ spc = "import"
    /\ test_config' = load_ollama_config(settings_file)
    /\ diag' = diag \o load_ollama_config_stderr(settings_file)
    /\ spc' = "config_loaded"
    /\ UNCHANGED <<settings_file, SETTINGS, OLLAMA_CLIENT, service_calls>>
    /\ UNCHANGED <<input_exists, skip_connection_test, probes, exit_code, reports,
                   calls, written>>
    /\ UNCHANGED <<mainVars, clientVars, guiVars>>

\* test_client_creation: client = create_ollama_client(config), the client
\* being held in OLLAMA_CLIENT; an exception ends the process with status 1.
TestCreateClient ==
    /\ spc = "config_loaded"
    /\ LET r == create_ollama_client(test_config)
       IN  IF r.ok
           THEN /\ OLLAMA_CLIENT' = r.value
                /\ spc' = "test_ready"
                /\ UNCHANGED <<exit_code, diag>>
           ELSE /\ spc' = "test_crashed"
                /\ exit_code' = 1
                /\ diag' = diag \o <<r.exc.cls>> \o r.exc.msg
                /\ UNCHANGED OLLAMA_CLIENT
    /\ UNCHANGED <<settings_file, SETTINGS, test_config, service_calls>>
    /\ UNCHANGED <<input_exists, skip_connection_test, probes, reports, calls, written>>
    /\ UNCHANGED <<mainVars, clientVars, guiVars>>

SettingsNext == LoadSettings \/ CreateClient \/ TestLoadConfig \/ TestCreateClient

SpecSettings == SettingsInit /\ [][SettingsNext]_vars

------------------------------------------------------------------------------
(* ollama_client.py: stopping the backend service.                           *)

MaxServiceCalls == 2

\* stop_service's default for its timeout parameter, in seconds.
StopTimeoutDefault == 30

\* The timeouts stop_service is called with.
StopTimeouts == {5, StopTimeoutDefault}

\* What running the stop command may come to: the command cannot be
\* started, or it runs for some seconds and exits with a status, having
\* written to its stderr.
CommandOutcomes ==
    { [kind |-> "not_found", seconds |-> 0, returncode |-> 0, stderr |-> ""] }
    \cup { [kind |-> "exit", seconds |-> sec, returncode |-> rc,
            stderr |-> IF rc = 0 THEN "" ELSE "Error: could not stop"] :
               sec \in {1, 10, 40}, rc \in {0, 1} }

\* subprocess.run(cmd, timeout=timeout, capture_output=True, text=True),
\* without check=True: the completed process whatever its exit status,
\* TimeoutExpired when the command runs longer than the timeout, the
\* operating system's error when the command cannot be started.
subprocess_run(o, timeout) ==
    IF o.kind = "not_found"
    THEN Raised(Exc("FileNotFoundError", <<"No such file or directory: 'ollama'">>))
    ELSE IF o.seconds > timeout
    THEN Raised(Exc("TimeoutExpired", <<"timed out after ", ToString(timeout)>>))
    ELSE Returned(o)

\* OllamaClient.stop_service(timeout) when the stop command comes to o: what
\* the call comes to, and what it prints to stderr.
stop_service(timeout, o) ==
    LET r == subprocess_run(o, timeout)
    IN  IF r.ok
        THEN IF r.value.returncode = 0
             THEN [ok |-> TRUE, value |-> TRUE, exc |-> None,
                   stderr |-> <<"[INFO] stopping", "[INFO] stopped">>]
             ELSE [ok |-> TRUE, value |-> TRUE, exc |-> None,
                   stderr |-> <<"[INFO] stopping", "[WARN] " \o r.value.stderr>>]
        ELSE IF r.exc.cls = "TimeoutExpired"
        THEN [ok |-> FALSE, value |-> FALSE,
              exc |-> Exc("OllamaServiceError", <<"stop timed out: ", ToString(timeout)>>),
              stderr |-> <<"[INFO] stopping">>]
        ELSE [ok |-> FALSE, value |-> FALSE,
              exc |-> Exc("OllamaServiceError", <<"unknown error: ">> \o r.exc.msg),
              stderr |-> <<"[INFO] stopping">>]

\* A client made from the default configuration, nothing called yet.
ServiceInit ==
    /\ MainIdle
    /\ ClientIdle
    /\ RunIdle
    /\ settings_file = [exists |-> FALSE, valid |-> FALSE, config |-> EmptyDict]
    /\ SETTINGS = Unset
    /\ test_config = load_ollama_config(settings_file)
    /\ OLLAMA_CLIENT = create_ollama_client(test_config).value
    /\ spc = "test_ready"
    /\ service_calls = <<>>
    /\ GuiIdle

\* client.stop_service(timeout), the stop command coming to o.
StopService(timeout, o) ==
    /\ spc = "test_ready"
    /\ Len(service_calls) < MaxServiceCalls
    /\ service_calls' = Append(service_calls,
                               [op |-> "stop_service", timeout |-> timeout,
                                outcome |-> o, call |-> stop_service(timeout, o)])
    /\ UNCHANGED <<settings_file, SETTINGS, OLLAMA_CLIENT, spc, test_config>>
    /\ UNCHANGED <<mainVars, clientVars, runVars, guiVars>>

ServiceNext == \E timeout \in StopTimeouts, o \in CommandOutcomes : StopService(timeout, o)

SpecService == ServiceInit /\ [][ServiceNext]_vars

-----------------------------------------------------------------------------
(* gui.py: the settings the GUI loads and saves.                             *)

MaxClicks == 2
MaxQueue == 2

\* The default settings of OllamaTranslatorGUI.load_settings: its "general"
\* section holds skip_connection_test only.
GuiDefaultSettings ==
    [ollama |-> DefaultOllamaConfig,
     translation |-> default_translation_settings,
     general |-> [skip_connection_test |-> FALSE]]

\* OllamaTranslatorGUI.load_settings: what json.load gives for a file that
\* is there and can be parsed, the defaults otherwise.
gui_load_settings(file) ==
    IF file.exists /\ file.valid THEN file.config ELSE GuiDefaultSettings

\* The keys load_settings_to_ui reads in each section.
UiKeys ==
    [ollama |-> {"url", "model_name", "temperature", "top_p", "repeat_penalty",
                 "timeout", "retries"},
     translation |-> {"target_language", "target_tokens_per_slice", "para_sep",
                      "system_prompt"},
     general |-> {"skip_connection_test"}]

\* load_settings_to_ui raises KeyError for these settings.
UiLacksKey(settings) ==
    \E sec \in DOMAIN UiKeys :
        \/ sec \notin DOMAIN settings
        \/ ~(UiKeys[sec] \subseteq DOMAIN settings[sec])

\* load_settings_to_ui: the entry widgets get the settings' values; the
\* text box of the system prompt, like every tk text widget, ends with a
\* newline of its own.
load_settings_to_ui(settings) ==
    [ollama |-> [k \in UiKeys["ollama"] |-> settings["ollama"][k]],
     translation |->
         [k \in UiKeys["translation"] |->
              IF k = "system_prompt"
              THEN settings["translation"][k] \o "\n"
              ELSE settings["translation"][k]],
     general |-> [k \in UiKeys["general"] |-> settings["general"][k]]]

\* save_settings_from_ui: every key the UI shows is assigned from its
\* widget (prompt_text.get("0.0", "end") for the system prompt); the other
\* keys of the three sections are kept.
save_settings_from_ui(settings, ui) ==
    [sec \in DOMAIN settings |->
        [k \in DOMAIN settings[sec] \cup DOMAIN ui[sec] |->
             IF k \in DOMAIN ui[sec] THEN ui[sec][k] ELSE settings[sec][k]]]

\* save_settings: json.dump(self.settings, f) makes the file hold the
\* settings.
save_settings(settings) == [exists |-> TRUE, valid |-> TRUE, config |-> settings]

\* settings.json when the GUI is started: absent, no JSON, a complete file,
\* or a file that holds an empty object.
GuiSettingsFiles ==
    { [exists |-> FALSE, valid |-> FALSE, config |-> EmptyDict],
      [exists |-> TRUE, valid |-> FALSE, config |-> EmptyDict],
      [exists |-> TRUE, valid |-> TRUE, config |-> EmptyDict] }
    \cup { [exists |-> TRUE, valid |-> TRUE, config |-> ConfigOf(o, t, g)] :
               o \in {x \in OllamaSections : "timeout" \in DOMAIN x},
               t \in TranslationSections,
               g \in {x \in GeneralSections :
                          /\ "timeout" \in DOMAIN x
                          /\ x["timeout"] = 30 /\ x["retries"] = 4
                          /\ x["skip_connection_test"]} }

\* The start-up code of translate_with_ollama.py, which gui.py imports and
\* the pipeline subprocess runs: SETTINGS = load_settings(), then
\* OLLAMA_CLIENT = create_ollama_client(SETTINGS["ollama"]).
ImportPipeline(file) ==
    LET r == load_settings(file)
    IN  IF r.ok THEN create_ollama_client(r.value["ollama"]) ELSE r

-----------------------------------------------------------------------------
(* gui.py: the UI thread, the worker and reader threads of                   *)
(* _run_translation_subprocess, and the pipeline subprocesses they start.    *)
(* Every subprocess translates a file of one slice with a backend that       *)
(* answers.                                                                  *)

\* The lines main prints to stderr for a file of one slice.
GeneratedLine == "Generated 1 slices"
ProgressLines ==
    <<"Translating: 0% complete (0/1 slices)",
      "Translating: 100% complete (1/1 slices)">>

\* What the interpreter prints when the start-up code raises exc.
Traceback(exc) == <<"Traceback (most recent call last):", exc.cls>>

\* The messages _run_translation_subprocess queues.
StartingMessage == "Starting translation process..."
CompletedMessage == "Translation completed!"
FailedMessage(return_code) ==
    IF return_code = 1 THEN "Translation failed with return code: 1"
    ELSE "Translation failed with return code: other"
ExceptionMessage == "Translation failed: 'NoneType' object has no attribute"
ReadErrorMessage(stream_name) ==
    IF stream_name = "stdout" THEN "Error reading stdout: 'NoneType' object has no attribute"
    ELSE "Error reading stderr: 'NoneType' object has no attribute"

\* The regular expression of update_progress_from_message matches message.
MatchesProgress(message) ==
    \E k \in DOMAIN ProgressLines : message = ProgressLines[k]

\* update_progress_from_message sets the progress bar and its label for
\* message: a progress line, the start and completion messages, and the
\* line that tells the number of slices.
SetsProgress(message) ==
    \/ MatchesProgress(message)
    \/ message \in {StartingMessage, CompletedMessage, GeneratedLine}

\* update_progress_from_message(message), called by thread: the widget
\* updates it makes.
update_progress_from_message(message, thread) ==
    IF SetsProgress(message)
    THEN <<[by |-> thread, widget |-> "progress_bar", message |-> message]>>
    ELSE <<>>

\* The updates so far and those of the sequence made, each numbered among
\* the updates of the same widget by the same thread for the same message.
RECURSIVE Record(_, _)
Record(updates, made) ==
    IF made = <<>> THEN updates
    ELSE LET u == Head(made)
             equal == {x \in updates : /\ x.by = u.by /\ x.widget = u.widget
                                       /\ x.message = u.message}
         IN  Record(updates \cup {[by |-> u.by, widget |-> u.widget,
                                   message |-> u.message,
                                   n |-> Cardinality(equal) + 1]},
                    Tail(made))

\* append_log(message), which only the UI thread calls.
append_log(message) ==
    <<[by |-> "ui", widget |-> "progress_text", message |-> message]>>

\* subprocess.Popen(cmd, stdout=PIPE, stderr=PIPE): a process that has yet
\* to run its start-up code, with two empty pipes.
Popen ==
    [state |-> "import", returncode |-> -1, stdout |-> <<>>, stderr |-> <<>>]

\* process.poll(): None (here -1) while the process runs.
poll(process) == IF process.state = "exited" THEN process.returncode ELSE -1

GuiInit ==
    /\ MainIdle
    /\ ClientIdle
    /\ RunIdle
    /\ settings_file \in GuiSettingsFiles
    /\ SETTINGS = Unset
    /\ OLLAMA_CLIENT = Unset
    /\ spc = "idle"
    /\ test_config = Unset
    /\ service_calls = <<>>
    /\ gpc = "start"
    /\ gui_settings = Unset
    /\ ui_entries = Unset
    /\ translation_process = 0
    /\ workers = <<>>
    /\ readers = <<>>
    /\ procs = <<>>
    /\ log_queue = <<>>
    /\ widget_updates = {}

GuiUnchangedOthers ==
    UNCHANGED <<mainVars, clientVars, runVars, spc, test_config, service_calls>>

\* python gui.py: the import of translate_with_ollama runs its start-up
\* code, then OllamaTranslatorGUI.__init__ loads the settings and fills the
\* widgets; an exception of either ends the program.
GuiStart ==
    /\ gpc = "start"
    /\ LET imported == load_settings(settings_file)
           client == ImportPipeline(settings_file)
           loaded == gui_load_settings(settings_file)
       IN  IF ~client.ok
           THEN /\ gpc' = "crashed"
                /\ UNCHANGED <<SETTINGS, OLLAMA_CLIENT, gui_settings, ui_entries>>
           ELSE /\ SETTINGS' = imported.value
                /\ OLLAMA_CLIENT' = client.value
                /\ gui_settings' = loaded
                /\ IF UiLacksKey(loaded)
                   THEN gpc' = "crashed" /\ UNCHANGED ui_entries
                   ELSE gpc' = "ready" /\ ui_entries' = load_settings_to_ui(loaded)
    /\ UNCHANGED <<settings_file, translation_process, workers, readers, procs,
                   log_queue, widget_updates>>
    /\ GuiUnchangedOthers

\* translate_file, an input file being selected: the settings are taken
\* from the widgets and saved, and a worker thread is started, whether or
\* not an earlier one still runs.
translate_file ==
    /\ gpc = "ready"
    /\ Len(workers) < MaxClicks
    /\ gui_settings' = save_settings_from_ui(gui_settings, ui_entries)
    /\ settings_file' = save_settings(gui_settings')
    /\ workers' = Append(workers, [pc |-> "start"])
    /\ UNCHANGED <<SETTINGS, OLLAMA_CLIENT, gpc, ui_entries, translation_process,
                   readers, procs, log_queue, widget_updates>>
    /\ GuiUnchangedOthers

\* The widget updates of check_log_queue's loop for the messages queued:
\* each message is appended to the log and the progress is updated from it.
RECURSIVE DrainUpdates(_)
DrainUpdates(queue) ==
    IF queue = <<>> THEN <<>>
    ELSE append_log(Head(queue)) \o update_progress_from_message(Head(queue), "ui")
             \o DrainUpdates(Tail(queue))

\* check_log_queue, a call that finds messages: the UI thread takes every
\* message from the queue, until get_nowait finds it empty.
check_log_queue ==
    /\ gpc = "ready"
    /\ log_queue # <<>>
    /\ log_queue' = <<>>
    /\ widget_updates' = Record(widget_updates, DrainUpdates(log_queue))
    /\ UNCHANGED <<settings_file, SETTINGS, OLLAMA_CLIENT, gpc, gui_settings,
                   ui_entries, translation_process, workers, readers, procs>>
    /\ GuiUnchangedOthers

\* self.log_queue.put(message), while the model's queue has room.
put(message) ==
    /\ Len(log_queue) < MaxQueue
    /\ log_queue' = Append(log_queue, message)

\* The worker goes to the except clause: the handle it read was None.
WorkerExcept(w) ==
    /\ put(ExceptionMessage)
    /\ workers' = [workers EXCEPT ![w].pc = "finally"]

\* _run_translation_subprocess: self.log_queue.put("Starting translation
\* process...\n")
WorkerStart(w) ==
    /\ workers[w].pc = "start"
    /\ put(StartingMessage)
    /\ workers' = [workers EXCEPT ![w].pc = "popen"]
    /\ UNCHANGED <<settings_file, SETTINGS, OLLAMA_CLIENT, gpc, gui_settings,
                   ui_entries, translation_process, readers, procs, widget_updates>>
    /\ GuiUnchangedOthers

\* self.translation_process = subprocess.Popen(...)
WorkerPopen(w) ==
    /\ workers[w].pc = "popen"
    /\ procs' = Append(procs, Popen)
    /\ translation_process' = Len(procs) + 1
    /\ workers' = [workers EXCEPT ![w].pc = "threads"]
    /\ UNCHANGED <<settings_file, SETTINGS, OLLAMA_CLIENT, gpc, gui_settings,
                   ui_entries, readers, log_queue, widget_updates>>
    /\ GuiUnchangedOthers

\* The two reader threads are created with self.translation_process.stdout
\* and self.translation_process.stderr, read from the shared attribute, and
\* started.
WorkerStartReaders(w) ==
    /\ workers[w].pc = "threads"
    /\ IF translation_process = 0
       THEN WorkerExcept(w) /\ UNCHANGED readers
       ELSE /\ readers' = readers \o
                  <<[process |-> translation_process, stream_name |-> "stdout",
                     pc |-> "reading"],
                    [process |-> translation_process, stream_name |-> "stderr",
                     pc |-> "reading"]>>
            /\ workers' = [workers EXCEPT ![w].pc = "wait"]
            /\ UNCHANGED log_queue
    /\ UNCHANGED <<settings_file, SETTINGS, OLLAMA_CLIENT, gpc, gui_settings,
                   ui_entries, translation_process, procs, widget_updates>>
    /\ GuiUnchangedOthers

\* while self.translation_process.poll() is None: time.sleep(0.1), up to
\* the poll that ends the loop; the two joins that follow have a timeout
\* and wait for nothing.
WorkerWait(w) ==
    /\ workers[w].pc = "wait"
    /\ IF translation_process = 0
       THEN WorkerExcept(w)
       ELSE /\ poll(procs[translation_process]) # -1
            /\ workers' = [workers EXCEPT ![w].pc = "report"]
            /\ UNCHANGED log_queue
    /\ UNCHANGED <<settings_file, SETTINGS, OLLAMA_CLIENT, gpc, gui_settings,
                   ui_entries, translation_process, readers, procs, widget_updates>>
    /\ GuiUnchangedOthers

\* return_code = self.translation_process.poll() and the message for it.
WorkerReport(w) ==
    /\ workers[w].pc = "report"
    /\ IF translation_process = 0
       THEN WorkerExcept(w)
       ELSE /\ LET return_code == poll(procs[translation_process])
               IN  put(IF return_code = 0 THEN CompletedMessage
                       ELSE FailedMessage(return_code))
            /\ workers' = [workers EXCEPT ![w].pc = "finally"]
    /\ UNCHANGED <<settings_file, SETTINGS, OLLAMA_CLIENT, gpc, gui_settings,
                   ui_entries, translation_process, readers, procs, widget_updates>>
    /\ GuiUnchangedOthers

\* finally: self.translation_process = None
WorkerFinally(w) ==
    /\ workers[w].pc = "finally"
    /\ translation_process' = 0
    /\ workers' = [workers EXCEPT ![w].pc = "done"]
    /\ UNCHANGED <<settings_file, SETTINGS, OLLAMA_CLIENT, gpc, gui_settings,
                   ui_entries, readers, procs, log_queue, widget_updates>>
    /\ GuiUnchangedOthers

\* The lines waiting in the pipe a reader reads.
Pipe(r) == procs[readers[r].process][readers[r].stream_name]

\* read_stream, readline giving a line: the line is queued and
\* update_progress_from_message is called with it, in the reader thread.
ReaderLine(r) ==
    /\ readers[r].pc = "reading"
    /\ Pipe(r) # <<>>
    /\ procs' = [procs EXCEPT ![readers[r].process][readers[r].stream_name] = Tail(@)]
    /\ put(Head(Pipe(r)))
    /\ widget_updates' =
           Record(widget_updates, update_progress_from_message(Head(Pipe(r)), "reader"))
    /\ UNCHANGED <<settings_file, SETTINGS, OLLAMA_CLIENT, gpc, gui_settings,
                   ui_entries, translation_process, workers, readers>>
    /\ GuiUnchangedOthers

\* read_stream, readline giving '' at the end of the pipe: the thread ends
\* when self.translation_process.poll() is not None; with the attribute set
\* to None the call raises AttributeError, the except clause queues its
\* message and calls poll again, which ends the thread with the exception.
ReaderEof(r) ==
    /\ readers[r].pc = "reading"
    /\ Pipe(r) = <<>>
    /\ procs[readers[r].process].state = "exited"
    /\ IF translation_process = 0
       THEN /\ put(ReadErrorMessage(readers[r].stream_name))
            /\ readers' = [readers EXCEPT ![r].pc = "crashed"]
       ELSE /\ poll(procs[translation_process]) # -1
            /\ readers' = [readers EXCEPT ![r].pc = "done"]
            /\ UNCHANGED log_queue
    /\ UNCHANGED <<settings_file, SETTINGS, OLLAMA_CLIENT, gpc, gui_settings,
                   ui_entries, translation_process, workers, procs, widget_updates>>
    /\ GuiUnchangedOthers

\* python translate_with_ollama.py input: the start-up code, which reads the
\* settings file as it is now; an exception ends the process with code 1
\* and a traceback on stderr.
ProcImport(p) ==
    /\ procs[p].state = "import"
    /\ LET client == ImportPipeline(settings_file)
       IN  procs' = [procs EXCEPT ![p] =
                        IF client.ok
                        THEN [@ EXCEPT !.state = "main"]
                        ELSE [@ EXCEPT !.state = "exited", !.returncode = 1,
                                       !.stderr = @ \o Traceback(client.exc)]]
    /\ UNCHANGED <<settings_file, SETTINGS, OLLAMA_CLIENT, gpc, gui_settings,
                   ui_entries, translation_process, workers, readers, log_queue,
                   widget_updates>>
    /\ GuiUnchangedOthers

\* main up to the first slice: the slices are counted, the output file is
\* opened for writing and the first progress line is printed.
ProcOpenOutput(p) ==
    /\ procs[p].state = "main"
    /\ procs' = [procs EXCEPT ![p] =
                    [@ EXCEPT !.state = "writing",
                              !.stderr = @ \o <<GeneratedLine, ProgressLines[1]>>]]
    /\ UNCHANGED <<settings_file, SETTINGS, OLLAMA_CLIENT, gpc, gui_settings,
                   ui_entries, translation_process, workers, readers, log_queue,
                   widget_updates>>
    /\ GuiUnchangedOthers

\* main from the first slice on: the slice is written, the last progress
\* line is printed, the output file is closed and the process ends.
ProcFinish(p) ==
    /\ procs[p].state = "writing"
    /\ procs' = [procs EXCEPT ![p] =
                    [@ EXCEPT !.state = "exited", !.returncode = 0,
                              !.stderr = @ \o <<ProgressLines[2]>>]]
    /\ UNCHANGED <<settings_file, SETTINGS, OLLAMA_CLIENT, gpc, gui_settings,
                   ui_entries, translation_process, workers, readers, log_queue,
                   widget_updates>>
    /\ GuiUnchangedOthers

GuiNext ==
    \/ GuiStart
    \/ translate_file
    \/ check_log_queue
    \/ \E w \in DOMAIN workers :
           \/ WorkerStart(w)
           \/ WorkerPopen(w)
           \/ WorkerStartReaders(w)
           \/ WorkerWait(w)
           \/ WorkerReport(w)
           \/ WorkerFinally(w)
    \/ \E r \in DOMAIN readers : ReaderLine(r) \/ ReaderEof(r)
    \/ \E p \in DOMAIN procs : ProcImport(p) \/ ProcOpenOutput(p) \/ ProcFinish(p)

SpecGui == GuiInit /\ [][GuiNext]_vars

-----------------------------------------------------------------------------
(* Properties of the slicer and the write loop, under SpecSlice.             *)

RECURSIVE SumTokens(_)
\* The sum of the token counts of a list of texts.
SumTokens(ps) == IF ps = <<>> THEN 0 ELSE count_tokens(Head(ps)) + SumTokens(Tail(ps))

\* The paragraphs of the input as group_paragraphs sees them: stripped.
StrippedParagraphs(s) ==
    LET ps == split_into_paragraphs(s) IN [k \in 1..Len(ps) |-> Strip(ps[k])]

RECURSIVE NormalParagraphs(_)
\* The paragraphs held by the 'normal' entries of a slice list, in order.
NormalParagraphs(sl) ==
    IF sl = <<>> THEN <<>>
    ELSE (IF Head(sl).type = "normal" THEN Head(sl).content ELSE <<>>)
         \o NormalParagraphs(Tail(sl))

Sliced == pc \in {"loop", "done"}

\* C1: once the run is over, the output's paragraph sequence (split on
\* blank-line boundaries) equals the input's paragraph sequence exactly,
\* blank paragraphs and their positions included, translation being the
\* identity.
C1_RoundTrip ==
    pc = "done" => split_into_paragraphs(output) = split_into_paragraphs(text)

\* C2: every 'normal' entry's paragraphs have token counts that sum to at
\* most target_tokens, and no paragraph whose own count exceeds target_tokens
\* is in a 'normal' entry.
C2_NormalGroupsFitBudget ==
    Sliced =>
        \A k \in 1..Len(slices) :
            slices[k].type = "normal" =>
                /\ SumTokens(slices[k].content) <= target_tokens
                /\ \A j \in 1..Len(slices[k].content) :
                       count_tokens(slices[k].content[j]) <= target_tokens

\* C2's case: the budget made the grouping pass flush, so two 'normal'
\* entries follow each other, the first of them filled to the budget.
C2_Witness ==
    /\ pc = "done"
    /\ target_tokens >= 1
    /\ \E k \in 1..(Len(slices) - 1) :
           /\ slices[k].type = "normal"
           /\ slices[k + 1].type = "normal"
           /\ SumTokens(slices[k].content) = target_tokens

\* C3: the text passed to the translation client for a 'normal' entry, its
\* paragraphs joined by the separator line, has a token count of at most
\* target_tokens.
C3_JoinedUnitFitsBudget ==
    Sliced =>
        \A k \in 1..Len(slices) :
            slices[k].type = "normal" =>
                count_tokens(join_paragraphs_with_separator(slices[k].content, para_sep))
                    <= target_tokens

\* C4: every 'long_paragraph_slice' entry has a token count of at most
\* target_tokens, unless it is exactly one sentence whose own token count
\* exceeds target_tokens.
C4_LongSlicesFitBudget ==
    Sliced =>
        \A k \in 1..Len(slices) :
            slices[k].type = "long_paragraph_slice" =>
                \/ count_tokens(slices[k].content) <= target_tokens
                \/ Len(sent_tokenize(slices[k].content)) = 1

\* C5 as stated: every paragraph whose token count is at most target_tokens,
\* a blank one included, is an element of a 'normal' entry: the 'normal'
\* entries hold exactly those paragraphs, in order.
C5_EveryFittingParagraphIsNormal ==
    Sliced =>
        NormalParagraphs(slices)
            = SelectSeq(StrippedParagraphs(text),
                        LAMBDA q : count_tokens(q) <= target_tokens)

\* C5, amended: every non-blank paragraph whose token count (stripped) is at
\* most target_tokens, equality included, is held whole by a 'normal' entry,
\* those entries holding exactly these paragraphs in order; and when no
\* paragraph exceeds target_tokens there is no 'long_paragraph_slice' entry.
\* A blank paragraph makes an 'empty' entry instead.
C5_FittingParagraphNeverSliced ==
    Sliced =>
        /\ NormalParagraphs(slices)
               = SelectSeq(StrippedParagraphs(text),
                           LAMBDA q : q # <<>> /\ count_tokens(q) <= target_tokens)
        /\ (\A j \in 1..Len(StrippedParagraphs(text)) :
                count_tokens(StrippedParagraphs(text)[j]) <= target_tokens)
           => \A k \in 1..Len(slices) : slices[k].type # "long_paragraph_slice"

\* C5's case: a paragraph whose token count equals target_tokens exactly
\* (one token or more) is held by a 'normal' entry.
C5_Witness ==
    /\ pc = "done"
    /\ target_tokens >= 1
    /\ \E k \in 1..Len(slices) :
           /\ slices[k].type = "normal"
           /\ \E j \in 1..Len(slices[k].content) :
                  count_tokens(slices[k].content[j]) = target_tokens

\* C6 as stated: for the empty input, process_text returns no entry and the
\* output file is created and empty.
C6_EmptyInputNoGroups ==
    (text = <<>> /\ pc = "done") =>
        /\ slices = <<>>
        /\ out_open
        /\ output = <<>>

\* C6, amended: for the empty input, process_text returns exactly one entry,
\* of type 'empty' and needing no translation, and the output file is
\* created and holds two newline characters.
C6_EmptyInputOneEmptyGroup ==
    (text = <<>> /\ Sliced) =>
        /\ Len(slices) = 1
        /\ slices[1].type = "empty"
        /\ ~slices[1].needs_translation
        /\ out_open
        /\ (pc = "done" => output = <<"\n", "\n">>)

\* C6's case: the run on the empty input is over.
C6_Witness == text = <<>> /\ pc = "done" /\ i = 1

-----------------------------------------------------------------------------
(* Properties of translate's retry loop, under SpecTranslate.                *)

\* The backend answered the latest request with a success: a status that is
\* no error and a JSON object whose "response" field is text.
LastSucceeded ==
    /\ last_outcome.kind = "http"
    /\ last_outcome.status = 200
    /\ last_outcome.body.form = "text"

\* text is one of the fragments of message msg.
Contains(msg, fragment) == \E k \in 1..Len(msg) : msg[k] = fragment

\* The wait after failed attempt k, as the retry policy states it.
ExpectedWait(k) ==
    IF k = 1 THEN 2 ELSE IF k = 2 THEN 4 ELSE IF k = 3 THEN 8
    ELSE IF k = 4 THEN 16 ELSE 30

\* C7: with a retry budget N >= 1, when the backend fails k attempts with a
\* classified error and then succeeds, translate returns right at the
\* success: it has made exactly k + 1 requests, k <= N - 1, it returns the
\* (stripped) text of that successful response, and it makes no request
\* after it.
C7_ReturnsAtFirstSuccess ==
    retries >= 1 =>
        /\ (LastSucceeded <=> tpc = "returned")
        /\ tpc = "returned" =>
               /\ requests = failures + 1
               /\ failures <= retries - 1
               /\ result = Strip(last_outcome.body.response)
               /\ ~ENABLED SendRequest

\* C7's case: two failed attempts, then a success on the last attempt of a
\* budget of three.
C7_Witness ==
    /\ tpc = "returned"
    /\ retries = 3
    /\ failures = 2
    /\ requests = 3
    /\ result = <<"y">>

\* C8: with a retry budget N >= 1, when every attempt fails with a
\* classified error, translate makes exactly N requests and then raises one
\* OllamaClientError whose message carries the message of the error of the
\* N-th attempt.
C8_ExhaustedAfterNRequests ==
    retries >= 1 =>
        /\ tpc \in {"exhausted", "failed"} =>
               /\ requests = retries
               /\ failures = retries
        /\ tpc = "failed" =>
               /\ raised.cls = "OllamaClientError"
               /\ raised = AggregateError(retries, _make_request(last_outcome).exc)
        /\ (failures = retries) => tpc \in {"exhausted", "failed"}

\* C8's case: a budget of three is used up, the last attempt having timed
\* out, and the aggregate error names the timeout.
C8_Witness ==
    /\ tpc = "failed"
    /\ retries = 3
    /\ requests = 3
    /\ last_outcome.kind = "timeout"
    /\ Contains(raised.msg, "request timed out: ")

\* C9: the k-th wait of a call, made between failed attempt k and attempt
\* k + 1, lasts min(2^k, 30) seconds (2, 4, 8, 16, then 30); there is no wait
\* before the first attempt, after a successful attempt, or after the last
\* failed attempt.
C9_BackoffSchedule ==
    /\ \A k \in 1..Len(sleeps) : sleeps[k] = ExpectedWait(k)
    /\ requests = 0 => sleeps = <<>>
    /\ tpc = "attempt" => (Len(sleeps) = requests /\ attempt = requests + 1)
    /\ tpc = "sleep" => (Len(sleeps) = requests - 1 /\ attempt < retries)
    /\ tpc \in {"returned", "crashed"} => Len(sleeps) = requests - 1
    /\ (tpc \in {"exhausted", "failed"} /\ retries >= 1) =>
           (Len(sleeps) = requests - 1 /\ requests = retries)

\* C9's case: six attempts failed; five waits were made, the fifth capped at
\* 30 seconds, and none after the sixth failure.
C9_Witness ==
    /\ tpc = "failed"
    /\ retries = 6
    /\ sleeps = <<2, 4, 8, 16, 30>>

\* C10: an attempt answered with HTTP 500 ends in an OllamaAPIError whose
\* message holds the status code and the response body; it is retried as any
\* classified failure is (a wait and a further attempt while the budget
\* lasts); and when the last attempt of the budget is answered so, the
\* aggregate error's message holds the status code and the body.
C10_Http500IsApiError ==
    (last_outcome.kind = "http" /\ last_outcome.status = 500) =>
        /\ last_exception.cls = "OllamaAPIError"
        /\ Contains(last_exception.msg, "500")
        /\ Contains(last_exception.msg, last_outcome.body.raw)
        /\ IF requests < retries
           THEN tpc \in {"sleep", "attempt"}
           ELSE tpc \in {"exhausted", "failed"}
        /\ tpc = "failed" =>
               /\ raised.cls = "OllamaClientError"
               /\ Contains(raised.msg, "500")
               /\ Contains(raised.msg, last_outcome.body.raw)

\* C10's case: every attempt of a budget of two was answered with HTTP 500
\* and the aggregate error has been raised.
C10_Witness ==
    /\ tpc = "failed"
    /\ retries = 2
    /\ requests = 2
    /\ last_outcome.kind = "http"
    /\ last_outcome.status = 500
    /\ last_outcome.body.raw = "oops"

\* C11: whatever the backend does on an attempt (unreachable, deadline
\* exceeded, error status, a body that is no JSON, a JSON body without the
\* result field, a JSON body whose result field is not text or that is no
\* object), an attempt that does not succeed ends in one of the classified
\* errors, which translate catches and retries; so translate ends with a
\* returned text or with an OllamaClientError, and no other exception
\* leaves it.
C11_NoUnclassifiedEscape ==
    /\ (requests >= 1 /\ ~LastSucceeded) =>
           /\ _make_request(last_outcome).exc.cls \in RetriedClasses
           /\ last_exception = _make_request(last_outcome).exc
    /\ tpc # "crashed"
    /\ raised # None => raised.cls = "OllamaClientError"

-----------------------------------------------------------------------------
(* Properties of a whole run, under SpecRun.                                 *)

\* The groups process_text made of the input.
GroupsOfInput == group_paragraphs(split_into_paragraphs(text), target_tokens)

RECURSIVE OwnersOf(_, _, _)
\* For every slice entry, in order, the number of the group it was made of,
\* the first group being number g.
OwnersOf(groups, target, g) ==
    IF groups = <<>> THEN <<>>
    ELSE [k \in 1..Len(SlicesOfGroup(Head(groups), target)) |-> g]
         \o OwnersOf(Tail(groups), target, g + 1)

RECURSIVE Concat(_)
\* The texts of a list, one after the other.
Concat(texts) == IF texts = <<>> THEN <<>> ELSE Head(texts) \o Concat(Tail(texts))

\* The calls main made for slice entry k (1-based).
CallsFor(k) == SelectSeq(calls, LAMBDA c : c.slice = k - 1)

\* C12: once a run has completed, for every paragraph that was cut into
\* 'long_paragraph_slice' entries a..b: each entry was translated by one call
\* of its own, and what the run wrote for the entries a..b is the
\* translations in order with nothing between them, then one pair of
\* newlines (one output paragraph for the paragraph).
C12_LongParagraphOneOutputParagraph ==
    pc = "done" =>
        LET owner == OwnersOf(GroupsOfInput, target_tokens, 1)
        IN  \A g \in 1..Len(GroupsOfInput) :
                LET idx == {k \in 1..Len(slices) :
                               owner[k] = g /\ slices[k].type = "long_paragraph_slice"}
                    a == SetMin(idx)
                    b == SetMax(idx)
                IN  idx # {} =>
                        /\ \A k \in idx :
                               /\ Len(CallsFor(k)) = 1
                               /\ CallsFor(k)[1].text = slices[k].content
                        /\ Concat(SubSeq(written, a, b))
                               = Concat([k \in 1..(b - a + 1) |->
                                            CallsFor(a + k - 1)[1].translated])
                                 \o <<"\n", "\n">>

\* Slice entry k (1-based) has been processed to its end.
Processed(k) == k <= i

\* The loop is at slice entry k and has called translate_segment for it.
InTranslation(k) == k = i + 1 /\ pc \in {"translating", "exited"} /\ calls # <<>>
                        /\ calls[Len(calls)].slice = i

\* The separator line between two joined paragraphs.
SeparatorLine == <<"\n">> \o para_sep \o <<"\n">>

\* C13: for every 'normal' entry, main makes exactly one translate call, and
\* makes it when the loop reaches the entry; the call's text is the entry's
\* paragraphs with the separator line between them; and once the entry is
\* processed, what was written for it is the translated text's parts between
\* the separators, each stripped and followed by two newlines, in order.
C13_NormalGroupOneCall ==
    \A k \in 1..Len(slices) :
        slices[k].type = "normal" =>
            /\ Len(CallsFor(k)) = (IF Processed(k) \/ InTranslation(k) THEN 1 ELSE 0)
            /\ \A c \in 1..Len(CallsFor(k)) :
                   CallsFor(k)[c].text = JoinWith(slices[k].content, SeparatorLine)
            /\ Processed(k) =>
                   LET parts == SplitOn(CallsFor(k)[1].translated, para_sep)
                   IN  written[k]
                           = Concat([j \in 1..Len(parts) |->
                                        Strip(parts[j]) \o <<"\n", "\n">>])

\* C13's case: a run has completed in which a 'normal' entry of two
\* paragraphs was rewritten by the model in one call, and two paragraphs
\* were written for it.
C13_Witness ==
    /\ pc = "done"
    /\ \E k \in 1..Len(slices) :
           /\ slices[k].type = "normal"
           /\ Len(slices[k].content) = 2
           /\ Len(CallsFor(k)) = 1
           /\ CallsFor(k)[1].translated # CallsFor(k)[1].text
           /\ written[k] = <<"b", "b", "b", "\n", "\n", "b", "b", "b", "\n", "\n">>

\* A translate call is under way or has just ended.
ClientActive ==
    tpc \in {"idle", "attempt", "sleep", "exhausted", "returned", "failed", "crashed"}

\* C14: for every 'empty' entry, main makes no translate call, so no request
\* is sent while the loop is at the entry, and once the entry is processed
\* exactly two newline characters have been written for it.
C14_EmptyGroupTwoNewlinesNoRequest ==
    \A k \in 1..Len(slices) :
        slices[k].type = "empty" =>
            /\ CallsFor(k) = <<>>
            /\ (k = i + 1) => (~ClientActive /\ ~ENABLED RunRequest)
            /\ Processed(k) => written[k] = <<"\n", "\n">>

\* C14's case: a run has completed in which an 'empty' entry was processed
\* after an entry that was translated.
C14_Witness ==
    /\ pc = "done"
    /\ \E k \in 2..Len(slices) :
           /\ slices[k].type = "empty"
           /\ slices[k - 1].type # "empty"
           /\ Len(calls) >= 1
           /\ written[k] = <<"\n", "\n">>

\* A translate call of main has ended in the aggregate error.
TranslationFailed == pc \in {"translating", "exited"} /\ tpc = "failed"

\* C15: when the translate call for a slice entry has failed, its retries
\* exhausted, the run is over: the only step left is the exit with status 1,
\* which writes nothing; no later entry gets a call, a progress line or a
\* write; nothing was written for the failed entry; and the output file
\* holds, and keeps, what was written for the entries before it.
C15_FailureAbortsRun ==
    /\ [](TranslationFailed =>
            /\ requests = retries
            /\ Len(written) = i
            /\ output = Concat(written)
            /\ out_open
            /\ calls[Len(calls)].slice = i
            /\ Len(reports) = i + 1
            /\ ~ENABLED (ProcessEmpty \/ EnterTranslate \/ Call \/ RunRequest \/ Sleep
                           \/ WriteLongTranslated \/ WriteNormalTranslated
                           \/ FinishRun)
            /\ pc = "exited" => (exit_code = 1 /\ ~ENABLED RunNext))
    /\ [][TranslationFailed =>
            /\ pc' = "exited"
            /\ exit_code' = 1
            /\ output' = output
            /\ written' = written
            /\ calls' = calls
            /\ i' = i]_vars

\* C15's case: a run was aborted at an entry that failed after a retry, with
\* output written for an earlier entry and an entry still to come.
C15_Witness ==
    /\ pc = "exited"
    /\ tpc = "failed"
    /\ retries = 2
    /\ requests = 2
    /\ i >= 1
    /\ output # <<>>
    /\ i + 1 < Len(slices)

\* The backend answers a request with a status that is no error.
AnswersWithSuccess(o) == o.kind = "http" /\ o.status < 400

\* C16: with skip_connection_test false, no probe has been made before the
\* connection test and exactly one from then on, so exactly one precedes
\* the slicing, the opening of the output and every translate call; a probe
\* that fails ends the run with status 1, nothing sliced, nothing written
\* and no translate call made; with skip_connection_test true no probe is
\* ever made.
C16_OneProbeBeforeWork ==
    /\ [](/\ skip_connection_test => probes = 0
          /\ ~skip_connection_test =>
                 /\ pc \in {"main", "probe"} => probes = 0
                 /\ pc \in {"start", "loop", "translating", "done"} => probes = 1
                 /\ probes <= 1
                 /\ (Sliced \/ out_open \/ calls # <<>> \/ ClientActive) => probes = 1
          /\ pc \in {"main", "probe"} =>
                 (slices = <<>> /\ calls = <<>> /\ ~out_open /\ ~ClientActive)
          /\ (pc = "exited" /\ ~out_open) =>
                 (exit_code = 1 /\ calls = <<>> /\ ~ClientActive /\ ~ENABLED RunNext))
    /\ [][\A o \in BackendOutcomes :
              TestConnection(o) =>
                  IF AnswersWithSuccess(o)
                  THEN pc' = "start" /\ exit_code' = -1
                  ELSE /\ pc' = "exited"
                       /\ exit_code' = 1
                       /\ calls' = <<>>
                       /\ slices' = <<>>
                       /\ ~out_open']_vars

\* C16's case: the connection test was not skipped, its one probe failed,
\* and the run ended without a translate call.
C16_Witness ==
    /\ ~skip_connection_test
    /\ probes = 1
    /\ pc = "exited"
    /\ Contains(diag, "Error: Cannot connect to Ollama service")
    /\ calls = <<>>

\* The calls of main that have not ended in a write: those for entries
\* that are not processed yet.
OpenCalls == SelectSeq(calls, LAMBDA c : c.slice >= Len(written))

\* C17: main has at most one translate call open at any time, and a request
\* can be sent only for the entry the loop is at, when everything before it
\* is written: the entries 1..i are processed, the output is what was
\* written for them in order, and the open call is the one for entry i + 1.
\* A call is made only when no call is open, and each write is appended to
\* the output for the entry that follows the ones written before.
C17_SequentialInOrder ==
    /\ [](/\ Len(OpenCalls) <= 1
          /\ out_open => output = Concat(written)
          /\ ~out_open => written = <<>>
          /\ Len(written) = i
          /\ \A c \in 1..Len(calls) :
                 /\ calls[c].slice < Len(slices)
                 /\ c > 1 => calls[c - 1].slice < calls[c].slice
          /\ (ClientActive /\ pc = "translating") =>
                 /\ Len(OpenCalls) = 1
                 /\ OpenCalls[1] = calls[Len(calls)]
                 /\ OpenCalls[1].slice = i
          /\ ENABLED RunRequest => (pc = "translating" /\ Len(OpenCalls) = 1))
    /\ [][/\ Len(calls') > Len(calls) =>
                 /\ ~ClientActive
                 /\ OpenCalls = <<>>
                 /\ calls'[Len(calls')].slice = Len(written)
          /\ written' # written =>
                 /\ Len(written') = Len(written) + 1
                 /\ SubSeq(written', 1, Len(written)) = written
                 /\ output' = output \o written'[Len(written')]
                 /\ i' = i + 1]_vars

\* C17's case: a request for the second entry is about to be sent, the
\* first entry's translation being written.
C17_Witness ==
    /\ pc = "translating"
    /\ tpc = "attempt"
    /\ i = 1
    /\ Len(calls) = 2
    /\ Len(written) = 1
    /\ output = calls[1].translated \o <<"\n", "\n">>

\* The percentage the progress line shows for done entries of total.
FloorPercent(done, total) == (100 * done) \div total

\* C18: the k-th progress line (k = 1, 2, ...) reports k - 1 completed of
\* Len(slices) entries, which is the number of entries processed when it is
\* printed, with the percentage floor(100 * done / total); a line is
\* printed as each entry is begun, that is after the one before is written,
\* and a completed run ends with the line total/total, 100%.  The percentages
\* never decrease and lie in 0..100.
C18_ProgressReports ==
    /\ [](/\ \A k \in 1..Len(reports) :
                 /\ reports[k].done = k - 1
                 /\ reports[k].total = Len(slices)
                 /\ reports[k].percent = FloorPercent(k - 1, Len(slices))
                 /\ reports[k].percent \in 0..100
                 /\ k > 1 => reports[k - 1].percent <= reports[k].percent
          /\ pc \in {"main", "probe", "start"} => reports = <<>>
          /\ pc = "loop" => Len(reports) = i
          /\ pc = "translating" => Len(reports) = i + 1
          /\ pc = "done" =>
                 /\ Len(reports) = Len(slices) + 1
                 /\ reports[Len(reports)]
                        = [done |-> Len(slices), total |-> Len(slices), percent |-> 100])
    /\ [][reports' # reports =>
              /\ Len(reports') = Len(reports) + 1
              /\ SubSeq(reports', 1, Len(reports)) = reports
              /\ reports'[Len(reports')].done = Len(written)]_vars

\* C18's case: a run of three entries has completed, and the lines showed
\* 0%, 33%, 66% and 100%.
C18_Witness ==
    /\ pc = "done"
    /\ Len(slices) = 3
    /\ [k \in 1..Len(reports) |-> reports[k].percent] = <<0, 33, 66, 100>>

\* The run is over.
Ended == pc \in {"done", "exited"}

\* C19: a run has an exit status exactly when it is over; the status is 0
\* exactly when the loop has processed every entry and all of them are
\* written, and then no error message was printed; otherwise it is 1 with an
\* error message on stderr.  A missing input file, a failed connection test
\* that was not skipped, and a translate call that failed with its retries
\* exhausted each end the run with status 1 and their message.
C19_ExitCode ==
    /\ [](/\ exit_code \in {-1, 0, 1}
          /\ Ended <=> exit_code # -1
          /\ exit_code = 0 <=> pc = "done"
          /\ exit_code = 0 =>
                 /\ Sliced
                 /\ i = Len(slices)
                 /\ Len(written) = Len(slices)
                 /\ output = Concat(written)
                 /\ diag = <<>>
          /\ exit_code = 1 =>
                 /\ diag # <<>>
                 /\ Len(written) < Len(slices) \/ ~Sliced
          /\ (~input_exists /\ pc # "main") =>
                 (exit_code = 1 /\ Contains(diag, "File does not exist"))
          /\ (TranslationFailed /\ Ended) =>
                 (exit_code = 1 /\ Contains(diag, "Failed to translate slice")))
    /\ [][\A o \in BackendOutcomes :
              (TestConnection(o) /\ ~AnswersWithSuccess(o)) =>
                  /\ exit_code' = 1
                  /\ Contains(diag', "Error: Cannot connect to Ollama service")]_vars

\* C19's case: a run of two entries or more has ended with status 0, every
\* entry written, the last translation having needed a second attempt.
C19_Witness ==
    /\ pc = "done"
    /\ exit_code = 0
    /\ Len(slices) >= 2
    /\ Len(written) = Len(slices)
    /\ Len(calls) >= 1
    /\ requests = 2

-----------------------------------------------------------------------------
(* Properties of the start-up code, under SpecSettings.                      *)

\* The settings file is there, is JSON, and has no section of that name.
Lacks(section) ==
    /\ settings_file.exists
    /\ settings_file.valid
    /\ section \notin DOMAIN settings_file.config

\* The keys of the backend connection other than timeout and retries.
ConnectionKeys == {"url", "model_name", "temperature", "top_p", "repeat_penalty"}

\* C20: when the settings file is there and lacks a section, load_settings
\* returns a configuration whose section of that name holds the defaults:
\* the default translation settings, the default general settings, and for
\* the "ollama" section the default url, model name and sampling values; and
\* with the "ollama" section lacking, the client is constructed from the
\* configuration without an error.
C20_MissingSectionsGetDefaults ==
    SETTINGS # Unset =>
        /\ Lacks("translation") => SETTINGS["translation"] = default_translation_settings
        /\ Lacks("general") => SETTINGS["general"] = DefaultGeneral
        /\ Lacks("ollama") =>
               /\ \A key \in ConnectionKeys :
                      /\ key \in DOMAIN SETTINGS["ollama"]
                      /\ SETTINGS["ollama"][key] = DefaultOllamaConfig[key]
               /\ spc # "crashed"

\* The settings file is there, is JSON, and its "ollama" section has the key.
OllamaSectionGives(key) ==
    /\ settings_file.exists
    /\ settings_file.valid
    /\ "ollama" \in DOMAIN settings_file.config
    /\ key \in DOMAIN settings_file.config["ollama"]

\* C21: when the settings file's "ollama" section gives a timeout and a retry
\* count, the client that is created holds these two values as its request
\* timeout and its retry count.
C21_ClientUsesBackendSectionValues ==
    spc = "ready" =>
        /\ OllamaSectionGives("timeout") =>
               OLLAMA_CLIENT["timeout"] = settings_file.config["ollama"]["timeout"]
        /\ OllamaSectionGives("retries") =>
               OLLAMA_CLIENT["retries"] = settings_file.config["ollama"]["retries"]

\* The settings file is there and is no JSON.
Unparseable == settings_file.exists /\ ~settings_file.valid

\* The complete hardcoded default configuration.
HardcodedDefaults ==
    [ollama |-> [url |-> "http://localhost:11434/api/generate",
                 model_name |-> "gemma3:latest",
                 temperature |-> "0.1",
                 top_p |-> "0.9",
                 repeat_penalty |-> "1.2",
                 timeout |-> 240,
                 retries |-> 3],
     translation |-> [target_tokens_per_slice |-> 1024,
                      target_language |-> "simplified Chinese",
                      system_prompt |-> "You are a professional translator. ...",
                      para_sep |-> para_sep],
     general |-> [skip_connection_test |-> FALSE, timeout |-> 240, retries |-> 3]]

C23_LoadedConfigHasConnectionKeys ==
    /\ spc \in {"config_loaded", "test_ready", "test_crashed"} =>
           {"url", "model_name", "timeout"} \subseteq DOMAIN test_config
    /\ spc # "test_crashed"
    /\ spc = "test_ready" =>
           /\ OLLAMA_CLIENT["url"] = test_config["url"]
           /\ OLLAMA_CLIENT["model_name"] = test_config["model_name"]

------------------------------------------------------------------------------
(* Properties of the connection probe, under SpecRun.                        *)

\* The probe request got a response with a success status.
ProbeSucceeded(o) == o.kind = "http" /\ o.status = 200

\* The probe request failed: the backend was unreachable, the request timed
\* out or failed otherwise, or the response has an error status.
ProbeFailed(o) ==
    \/ o.kind \in {"connection_error", "timeout", "request_exception"}
    \/ o.kind = "http" /\ o.status \in {404, 500}

\* C24: test_connection never raises and answers every backend behaviour:
\* True (main goes on to read the input) when the probe request gets a
\* success status, False (main prints that it cannot connect and exits with
\* status 1) when the backend is unreachable, times out or answers with an
\* error status; no exception ends the run at the probe.
C24_ProbeNeverRaises ==
    [][\A o \in BackendOutcomes :
           TestConnection(o) =>
               /\ ProbeSucceeded(o) \/ ProbeFailed(o)
               /\ ProbeSucceeded(o) =>
                      /\ pc' = "start"
                      /\ exit_code' = -1
                      /\ diag' = diag
               /\ ProbeFailed(o) =>
                      /\ pc' = "exited"
                      /\ exit_code' = 1
                      /\ diag' = diag \o <<"connection test failed",
                                           "Error: Cannot connect to Ollama service">>
               /\ raised' = raised]_vars

\* C24's case: the probe was made, test_connection returned True, and the
\* run went on to translate.
C24_Witness ==
    /\ ~skip_connection_test
    /\ probes = 1
    /\ pc = "done"
    /\ exit_code = 0
    /\ Len(calls) >= 1

------------------------------------------------------------------------------
(* Properties of the exception classes, under SpecRun.                       *)

\* The classified client errors.
ClassifiedErrors == {"OllamaConnectionError", "OllamaAPIError", "OllamaTimeoutError"}

\* C25: each classified client error (connection, API, timeout) is an
\* OllamaClientError and none is another: what translate has recorded as a
\* failed attempt is one of them, and the aggregate error translate raises
\* when the retries are used up is caught by main's handler for
\* OllamaClientError, which then ends the run; an exception that is not an
\* OllamaClientError is not caught by it.
C25_ClassifiedErrorsAreClientErrors ==
    /\ \A c \in ClassifiedErrors :
           /\ IsSubclass(c, "OllamaClientError")
           /\ \A d \in ClassifiedErrors \ {c} : ~IsSubclass(c, d)
    /\ last_exception.cls # "None" =>
           /\ last_exception.cls \in ClassifiedErrors
           /\ Catches("OllamaClientError", last_exception)
    /\ tpc = "failed" =>
           /\ Catches("OllamaClientError", raised)
           /\ pc = "translating" => ENABLED AbortRun /\ ~ENABLED CrashRun
    /\ tpc = "crashed" =>
           /\ ~Catches("OllamaClientError", raised)
           /\ pc = "translating" => ENABLED CrashRun /\ ~ENABLED AbortRun

\* C25's case: every attempt of a translate call failed with a connection
\* error, the aggregate error was raised and main's handler ended the run.
C25_Witness ==
    /\ pc = "exited"
    /\ tpc = "failed"
    /\ last_exception.cls = "OllamaConnectionError"
    /\ raised.cls = "OllamaClientError"
    /\ Contains(diag, "Failed to translate slice")

------------------------------------------------------------------------------
(* Properties of the service operations, under SpecService.                  *)

\* The stop command of a call ran longer than the call's timeout.
StopTimedOut(c) == c.outcome.kind = "exit" /\ c.outcome.seconds > c.timeout

\* The stop command of a call ended in time with a non-zero exit status.
StopExitedNonZero(c) ==
    /\ c.outcome.kind = "exit"
    /\ c.outcome.seconds <= c.timeout
    /\ c.outcome.returncode # 0

\* C26: a stop_service call whose stop command times out or exits with a
\* non-zero status fails with OllamaServiceError; every other call returns
\* a boolean.
C26_StopFailsOnTimeoutOrNonZeroExit ==
    \A k \in 1..Len(service_calls) :
        LET c == service_calls[k]
        IN  /\ (StopTimedOut(c) \/ StopExitedNonZero(c)) =>
                   /\ ~c.call.ok
                   /\ c.call.exc.cls = "OllamaServiceError"
            /\ (c.outcome.kind = "exit" /\ ~StopTimedOut(c) /\ ~StopExitedNonZero(c)) =>
                   /\ c.call.ok
                   /\ c.call.value \in BOOLEAN

------------------------------------------------------------------------------
(* Further properties of the slicer, under SpecSlice.                        *)

\* The document is one paragraph, and its token count exceeds target_tokens.
OneLongParagraph ==
    /\ Len(split_into_paragraphs(text)) = 1
    /\ count_tokens(Strip(text)) > target_tokens

RECURSIVE CutAtSentenceBoundaries(_, _)
\* Each of the texts slcs is a run of consecutive sentences joined by single
\* spaces, the runs together being the whole sentence list in order.
CutAtSentenceBoundaries(slcs, sentences) ==
    IF slcs = <<>> THEN sentences = <<>>
    ELSE \E n \in 1..Len(sentences) :
             /\ Head(slcs) = JoinSentences(SubSeq(sentences, 1, n))
             /\ CutAtSentenceBoundaries(Tail(slcs),
                                        SubSeq(sentences, n + 1, Len(sentences)))

\* The contents of the entries, in order.
ContentsOf(entries) == [k \in 1..Len(entries) |-> entries[k].content]

\* C27 as stated: a document of one paragraph whose token count exceeds
\* target_tokens (a target of zero or more) is split into at least two
\* entries, all of type 'long_paragraph_slice', cut at sentence boundaries.
C27_LongParagraphAtLeastTwoSlices ==
    (Sliced /\ OneLongParagraph /\ target_tokens >= 0) =>
        /\ Len(slices) >= 2
        /\ \A k \in 1..Len(slices) : slices[k].type = "long_paragraph_slice"
        /\ CutAtSentenceBoundaries(ContentsOf(slices), sent_tokenize(text))

\* C27, amended: a document of one non-blank paragraph whose token count
\* exceeds target_tokens is split into 'long_paragraph_slice' entries only,
\* at least one, cut at sentence boundaries; there are at least two of them
\* when the paragraph has more than one sentence and the token counts of its
\* sentences sum to more than target_tokens.
C27_LongParagraphSlicedAtSentences ==
    (Sliced /\ OneLongParagraph /\ Strip(text) # <<>>) =>
        /\ Len(slices) >= 1
        /\ \A k \in 1..Len(slices) : slices[k].type = "long_paragraph_slice"
        /\ CutAtSentenceBoundaries(ContentsOf(slices), sent_tokenize(text))
        /\ (/\ Len(sent_tokenize(text)) >= 2
            /\ SumTokens(sent_tokenize(text)) > target_tokens)
           => Len(slices) >= 2

\* C27's case: a paragraph of several sentences, longer than a target of one
\* token or more, was cut in two or more slices, one of them holding two
\* sentences.
C27_Witness ==
    /\ pc = "done"
    /\ OneLongParagraph
    /\ target_tokens >= 1
    /\ Len(slices) >= 2
    /\ \E k \in 1..Len(slices) :
           /\ slices[k].type = "long_paragraph_slice"
           /\ Len(sent_tokenize(slices[k].content)) = 2

------------------------------------------------------------------------------
(* Further properties of a whole run, under SpecRun.                         *)

\* The input document holds nothing but whitespace and newlines.
BlankDocument == \A k \in 1..Len(text) : text[k] \in Whitespace

\* C28: for a document of blank lines only (whitespace and newlines, the
\* empty document included) process_text returns 'empty' entries only, at
\* least one, none needing translation, and the run makes no translate call
\* and sends no translation request: it writes two newlines per entry and
\* ends with status 0.
C28_BlankDocumentNoRequest ==
    BlankDocument =>
        /\ calls = <<>>
        /\ requests = 0
        /\ tpc = "no_call"
        /\ pc \in {"loop", "done"} =>
               /\ Len(slices) >= 1
               /\ \A k \in 1..Len(slices) :
                      /\ slices[k].type = "empty"
                      /\ ~slices[k].needs_translation
        /\ pc = "done" =>
               /\ exit_code = 0
               /\ output = Concat([k \in 1..Len(slices) |-> <<"\n", "\n">>])

\* C28's case: the run on a document of several blank paragraphs is over.
C28_Witness ==
    /\ BlankDocument
    /\ text # <<>>
    /\ pc = "done"
    /\ Len(slices) >= 2
    /\ requests = 0

------------------------------------------------------------------------------
(* Properties of group_paragraphs, under SpecSlice.                          *)

\* C29: the groups group_paragraphs returns, read in order, list exactly the
\* stripped paragraphs of the input in their order, each once; no group is
\* empty, and a blank paragraph is a group of its own.
C29_GroupsListParagraphsInOrder ==
    Sliced =>
        LET groups == GroupsOfInput
        IN  /\ Concat(groups) = StrippedParagraphs(text)
            /\ \A g \in 1..Len(groups) :
                   /\ groups[g] # <<>>
                   /\ (\E j \in 1..Len(groups[g]) : groups[g][j] = <<>>)
                          => groups[g] = << <<>> >>

\* C29's case: a document that begins with a blank paragraph and goes on
\* with paragraphs that were put in one group was grouped.
C29_Witness ==
    /\ pc = "done"
    /\ Len(GroupsOfInput) >= 2
    /\ GroupsOfInput[1] = << <<>> >>
    /\ \E g \in 2..Len(GroupsOfInput) : Len(GroupsOfInput[g]) >= 2

RECURSIVE GroupNumbers(_, _)
\* For every paragraph the groups list, in order, the number of its group,
\* the first group being number g.
GroupNumbers(groups, g) ==
    IF groups = <<>> THEN <<>>
    ELSE [j \in 1..Len(Head(groups)) |-> g] \o GroupNumbers(Tail(groups), g + 1)

\* The (stripped) paragraph is blank, or its own token count exceeds the
\* budget.
FlushesPending(para) ==
    \/ para = <<>>
    \/ count_tokens(para) > target_tokens

\* C30: a blank paragraph, or one whose own token count exceeds max_tokens,
\* is a group of its own; every paragraph before it is in an earlier group
\* and every paragraph after it in a later one, so no group holds paragraphs
\* from both sides of it and the group pending when it is met precedes it.
C30_BlankOrLongFlushesFirst ==
    Sliced =>
        LET paras == StrippedParagraphs(text)
            groups == GroupsOfInput
            number == GroupNumbers(groups, 1)
        IN  /\ Len(number) = Len(paras)
            /\ \A p \in 1..Len(paras) :
                   FlushesPending(paras[p]) =>
                       /\ groups[number[p]] = <<paras[p]>>
                       /\ \A q \in 1..Len(paras) :
                              /\ q < p => number[q] < number[p]
                              /\ q > p => number[q] > number[p]

\* C30's case: a paragraph over the budget came while a group of fitting
\* paragraphs was pending, and fitting paragraphs follow it.
C30_Witness ==
    /\ pc = "done"
    /\ target_tokens >= 0
    /\ \E g \in 2..(Len(GroupsOfInput) - 1) :
           /\ Len(GroupsOfInput[g]) = 1
           /\ count_tokens(GroupsOfInput[g][1]) > target_tokens
           /\ SumTokens(GroupsOfInput[g - 1]) <= target_tokens
           /\ GroupsOfInput[g - 1] # << <<>> >>
           /\ SumTokens(GroupsOfInput[g + 1]) <= target_tokens
           /\ GroupsOfInput[g + 1] # << <<>> >>

\* The group holds fitting paragraphs only: none blank, none whose own token
\* count exceeds the budget.
HoldsFittingParagraphs(group) ==
    \A j \in 1..Len(group) : ~FlushesPending(group[j])

\* C31: grouping is greedy-maximal: when two groups of fitting paragraphs
\* follow each other in the output of group_paragraphs, the token sum of the
\* first plus the token count of the second's first paragraph exceeds
\* max_tokens (the first group could not have taken one paragraph more).
C31_GreedyMaximal ==
    Sliced =>
        LET groups == GroupsOfInput
        IN  \A g \in 1..(Len(groups) - 1) :
                (HoldsFittingParagraphs(groups[g])
                     /\ HoldsFittingParagraphs(groups[g + 1])) =>
                    SumTokens(groups[g]) + count_tokens(groups[g + 1][1])
                        > target_tokens

\* C31's case: a group of two fitting paragraphs was closed because the
\* next fitting paragraph did not fit with them.
C31_Witness ==
    /\ pc = "done"
    /\ \E g \in 1..(Len(GroupsOfInput) - 1) :
           /\ Len(GroupsOfInput[g]) >= 2
           /\ HoldsFittingParagraphs(GroupsOfInput[g])
           /\ HoldsFittingParagraphs(GroupsOfInput[g + 1])

------------------------------------------------------------------------------
(* Properties of slice_long_paragraph, under SpecSlice.                      *)

\* C32: for every paragraph of the input and the target, the slices
\* slice_long_paragraph returns, read in order, hold every sentence of the
\* paragraph once and in order: each slice is a run of consecutive sentences
\* joined by single spaces, the slices joined by single spaces are the
\* sentences joined by single spaces, and a paragraph with a sentence never
\* gives an empty slice list. The entries process_text makes of a document
\* that is one long paragraph are these slices.
C32_SlicesHoldEverySentenceOnce ==
    Sliced =>
        LET paras == StrippedParagraphs(text)
        IN  /\ \A p \in 1..Len(paras) :
                   LET sentences == sent_tokenize(paras[p])
                       slcs == slice_long_paragraph(paras[p], target_tokens)
                   IN  /\ CutAtSentenceBoundaries(slcs, sentences)
                       /\ JoinSentences(slcs) = JoinSentences(sentences)
                       /\ sentences # <<>> => slcs # <<>>
            /\ (OneLongParagraph /\ Strip(text) # <<>>) =>
                   ContentsOf(slices) = slice_long_paragraph(paras[1], target_tokens)

\* C32's case: a long paragraph of three sentences or more was cut in
\* slices, fewer than it has sentences.
C32_Witness ==
    /\ pc = "done"
    /\ OneLongParagraph
    /\ Len(sent_tokenize(text)) >= 3
    /\ Len(slices) >= 2
    /\ Len(slices) < Len(sent_tokenize(text))

------------------------------------------------------------------------------
(* Further properties of translate's retry loop, under SpecTranslate.        *)

\* C33: with a retry budget of 0 or less translate sends no request and
\* fails with the aggregate OllamaClientError, whose underlying error is
\* None; and, whatever the budget, translate returns a translation only
\* after a request that succeeded.
C33_NoBudgetNoRequest ==
    /\ retries <= 0 =>
           /\ requests = 0
           /\ sleeps = <<>>
           /\ last_exception = None
           /\ last_outcome = NoOutcome
           /\ tpc \in {"idle", "exhausted", "failed"}
           /\ tpc = "failed" =>
                  /\ raised = AggregateError(retries, None)
                  /\ raised.cls = "OllamaClientError"
                  /\ Contains(raised.msg, "None")
    /\ tpc = "returned" =>
           /\ requests >= 1
           /\ LastSucceeded
           /\ raised = None

\* C33's case: translate was called with a budget of zero and has raised
\* the aggregate error without a request.
C33_Witness ==
    /\ retries = 0
    /\ tpc = "failed"
    /\ requests = 0
    /\ raised.cls = "OllamaClientError"

------------------------------------------------------------------------------
(* Properties of the write of a 'normal' entry, under SpecRun.               *)

\* The number of paragraphs written for slice entry k: every write is a
\* paragraph followed by two newlines.
ParagraphsWritten(k) == Len(SplitOn(written[k], <<"\n", "\n">>)) - 1

\* C34: for a 'normal' entry of k paragraphs that has been processed, main
\* has written exactly k paragraphs, whatever the model answered.
C34_NormalGroupWritesKParagraphs ==
    \A k \in 1..Len(slices) :
        (slices[k].type = "normal" /\ Processed(k)) =>
            ParagraphsWritten(k) = Len(slices[k].content)

------------------------------------------------------------------------------
(* Properties of the output file, under SpecRun.                             *)

\* The run has ended before any translation: the input file is missing, or
\* the connection probe failed.
AbortedBeforeTranslation ==
    /\ pc = "exited"
    /\ \/ ~input_exists
       \/ Contains(diag, "Error: Cannot connect to Ollama service")

\* C35: a run that aborts before translation starts (input file missing,
\* connection probe failed) neither creates nor changes the output file;
\* the file is opened, and truncated, only in the step that has read and
\* sliced the input, after the input was found and the probe has passed or
\* was skipped; before that step it holds what it held when main started.
C35_OutputUntouchedBeforeSlicing ==
    /\ [](AbortedBeforeTranslation =>
            /\ ~out_open
            /\ output \in OldOutputs
            /\ written = <<>>
            /\ slices = <<>>)
    /\ [](out_open =>
            /\ input_exists
            /\ skip_connection_test \/ probes = 1
            /\ ~Contains(diag, "Error: Cannot connect to Ollama service")
            /\ pc \in {"loop", "translating", "done", "exited"})
    /\ [][~out_open => (output' = output \/ (SliceText /\ output' = <<>>))]_vars
    /\ [][out_open' # out_open => (SliceText /\ out_open')]_vars

\* C35's case: the probe failed while the output path held the text of an
\* earlier run, and the run has ended with that text in place.
C35_Witness ==
    /\ pc = "exited"
    /\ probes = 1
    /\ ~out_open
    /\ output = <<"o", "l", "d", "\n", "\n">>
    /\ Contains(diag, "Error: Cannot connect to Ollama service")
-----------------------------------------------------------------------------
(* Properties of the GUI, under SpecGui.                                     *)

\* The pipeline subprocesses whose start-up code raised.
CrashedAtImport == {p \in DOMAIN procs : procs[p].state = "exited" /\ procs[p].returncode = 1}

\* C36: a settings file the GUI has saved, the one built from the GUI's
\* defaults included, is accepted by the pipeline's load_settings, so that
\* no subprocess the GUI launches ends in its start-up code.
C36_SavedSettingsAccepted ==
    /\ workers # <<>> => load_settings(settings_file).ok
    /\ CrashedAtImport = {}

\* The pipeline subprocesses that run, and those that hold the output file
\* open for writing.
Running == {p \in DOMAIN procs : procs[p].state # "exited"}
Writing == {p \in DOMAIN procs : procs[p].state = "writing"}

\* C37: at most one translation subprocess runs at any time, so that no two
\* runs write the output file at once, and the shared translation_process
\* handle is not None while a reader thread still reads.
C37_OneRunAtATime ==
    /\ Cardinality(Running) <= 1
    /\ Cardinality(Writing) <= 1
    /\ \A r \in DOMAIN readers :
           readers[r].pc = "reading" => translation_process # 0

\* The number of updates of the progress bar made for message.
ProgressUpdatesFor(message) ==
    Cardinality({u \in widget_updates :
                    u.widget = "progress_bar" /\ u.message = message})

\* C38: every widget update is made by the UI thread, and, of one run, each
\* progress line updates the progress display no more than once, and once
\* when the UI thread has taken it from the queue.
C38_WidgetsUpdatedOnUiThreadOnce ==
    /\ \A u \in widget_updates : u.by = "ui"
    /\ Len(procs) <= 1 =>
           \A j \in DOMAIN ProgressLines : ProgressUpdatesFor(ProgressLines[j]) <= 1


=============================================================================
